---- MODULE Spec2Model ----
(***************************************************************************)
(* Lead intake and triage pipeline of rookie-lead-qualification-form:      *)
(* the POST /api/webhook handler (src/src/routes/webhook.ts), the          *)
(* validator (src/src/utils/validator.js), the store operations            *)
(* (src/src/services/supabaseService.ts and the find_or_create_company     *)
(* stored procedure), the completion-service stages                        *)
(* (src/src/services/aiService.ts) and the mailer (emailService).          *)
(*                                                                         *)
(* Strings are TLA+ strings (sequences of characters); an optional value   *)
(* (JS undefined / SQL NULL) is the empty tuple None, a present value v is *)
(* the one-element tuple Some(v).                                          *)
(***************************************************************************)
EXTENDS Integers, Sequences, FiniteSets, TLC

\* ------------------------------------------------------------------------
\* Bounds of the model
\* ------------------------------------------------------------------------

\* Number of requests of specification Spec, which handles any request and
\* lets any external call fail.
MaxRuns == 1

\* Number of requests of the specifications SpecLeads and SpecSequential,
\* which run the valid_lead path interleaved and one request at a time.
MaxLeads == 2

\* Number of external calls that may fail over one behaviour.
MaxFaults == 2

\* Number of calls one client of specification SpecProc makes.
\* SIGTERM / SIGINT signals the process receives.
MaxSignals == 2

MaxCalls == 2

Runs == 1..MaxRuns

Leads == 1..MaxLeads

\* The requests the state has room for.
AllRuns == Runs \cup Leads

\* ------------------------------------------------------------------------
\* Optional values and strings
\* ------------------------------------------------------------------------

None == << >>

Some(v) == << v >>

IsSome(o) == o # None

Val(o) == o[1]

\* JS (x || '') on an optional string.
OrEmpty(o) == IF IsSome(o) THEN Val(o) ELSE ""

\* JS truthiness of an optional string: undefined and '' are falsy.
Truthy(o) == IsSome(o) /\ Val(o) # ""

Char(s, i) == SubSeq(s, i, i)

Digits == {"0", "1", "2", "3", "4", "5", "6", "7", "8", "9"}

\* \s of a JS regular expression, over the characters the model uses.
Spaces == {" ", "\t", "\n", "\r"}

Upper == <<"A", "B", "C", "D", "E", "F", "G", "H", "I", "J", "K", "L", "M",
           "N", "O", "P", "Q", "R", "S", "T", "U", "V", "W", "X", "Y", "Z">>

Lower == <<"a", "b", "c", "d", "e", "f", "g", "h", "i", "j", "k", "l", "m",
           "n", "o", "p", "q", "r", "s", "t", "u", "v", "w", "x", "y", "z">>

LowerChar(c) ==
    IF \E i \in 1..26 : Upper[i] = c
    THEN Lower[CHOOSE i \in 1..26 : Upper[i] = c]
    ELSE c

\* String.prototype.toLowerCase / SQL LOWER().
RECURSIVE ToLowerCase(_)
ToLowerCase(s) ==
    IF s = "" THEN "" ELSE LowerChar(Head(s)) \o ToLowerCase(Tail(s))

\* Whether sub occurs in s at position i (1-based).
MatchAt(s, sub, i) ==
    /\ i >= 1
    /\ i + Len(sub) - 1 <= Len(s)
    /\ SubSeq(s, i, i + Len(sub) - 1) = sub

\* String.prototype.includes.
Includes(s, sub) == \E i \in 1..(Len(s) + 1) : MatchAt(s, sub, i)

\* A case-insensitive regular expression that is an alternation of literals.
MatchesAnyI(s, words) == \E w \in words : Includes(ToLowerCase(s), w)

EndsWith(s, sub) == MatchAt(s, sub, Len(s) - Len(sub) + 1)

\* s without its trailing whitespace run.
RECURSIVE TrimEnd(_)
TrimEnd(s) ==
    IF s # "" /\ Char(s, Len(s)) \in Spaces
    THEN TrimEnd(SubSeq(s, 1, Len(s) - 1))
    ELSE s

RECURSIVE TrimStart(_)
TrimStart(s) ==
    IF s # "" /\ Head(s) \in Spaces THEN TrimStart(Tail(s)) ELSE s

\* String.prototype.trim.
Trim(s) == TrimStart(TrimEnd(s))

\* s.replace(/\s+/g, '').
RECURSIVE RemoveSpaces(_)
RemoveSpaces(s) ==
    IF s = "" THEN ""
    ELSE IF Head(s) \in Spaces THEN RemoveSpaces(Tail(s))
    ELSE Head(s) \o RemoveSpaces(Tail(s))

\* s.replace(/\s+<suffix>$/i, ''): the suffix at the end of s, any letter
\* case, preceded by at least one whitespace character, is removed together
\* with the whole whitespace run before it.
StripSuffixI(s, suffix) ==
    LET n    == Len(s) - Len(suffix)
        head == SubSeq(s, 1, n)
    IN  IF /\ n >= 1
           /\ ToLowerCase(SubSeq(s, n + 1, Len(s))) = suffix
           /\ Char(s, n) \in Spaces
        THEN TrimEnd(head)
        ELSE s

\* Positions of '@' in s.
AtPositions(s) == {i \in 1..Len(s) : Char(s, i) = "@"}

\* s.split('@')[1]: the text between the first '@' and the next one (or the
\* end of s). Only used when s includes '@'.
SplitAt1(s) ==
    LET first == CHOOSE i \in AtPositions(s) : \A j \in AtPositions(s) : i <= j
        later == {j \in AtPositions(s) : j > first}
        stop  == IF later = {} THEN Len(s) + 1
                 ELSE CHOOSE j \in later : \A k \in later : j <= k
    IN  SubSeq(s, first + 1, stop - 1)

\* /^[^\s@]+@[^\s@]+\.[^\s@]+$/.test(s)
EmailPattern(s) ==
    /\ Cardinality(AtPositions(s)) = 1
    /\ \A i \in 1..Len(s) : Char(s, i) \notin Spaces
    /\ LET at == CHOOSE i \in AtPositions(s) : TRUE
       IN  /\ at > 1
           /\ \E d \in (at + 2)..(Len(s) - 1) : Char(s, d) = "."

PhoneChars == Digits \cup Spaces \cup {"-", "+", "(", ")"}

\* Run length the phone expression asks for, {8,}.
PhoneRun == 8

\* /[\d\s\-\+\(\)]{8,}/.test(s)
PhonePattern(s) ==
    \E i \in 1..(Len(s) - PhoneRun + 1) :
        \A j \in i..(i + PhoneRun - 1) : Char(s, j) \in PhoneChars

\* ------------------------------------------------------------------------
\* Validator (src/src/utils/validator.js)
\* ------------------------------------------------------------------------

\* Number of entries the score divides by.
ScoreDenominator == 6

\* Least length of an adequate need description.
MinDescription == 50

\* A company or contact name is filled when longer than this.
MinName == 2

\* Spam indicators needed to flag a lead.
SpamThreshold == 2

\* Math.round((n / d) * 100) for naturals n, d.
RoundPercent(n, d) == (200 * n + d) \div (2 * d)

\* A validation object whose name checks pass from the length MinName on.
validationFromMinName(lead) ==
    [email_valid              |-> EmailPattern(OrEmpty(lead.email)),
     phone_valid              |-> PhonePattern(OrEmpty(lead.phone)),
     company_filled           |-> Len(OrEmpty(lead.company_name)) >= MinName,
     needs_description_length |-> Len(OrEmpty(lead.needs_description)),
     needs_adequate           |-> Len(OrEmpty(lead.needs_description)) >= MinDescription,
     contact_name_filled      |-> Len(OrEmpty(lead.full_name)) >= MinName]

\* The validation object of validateLead.
validation(lead) ==
    [email_valid              |-> EmailPattern(OrEmpty(lead.email)),
     phone_valid              |-> PhonePattern(OrEmpty(lead.phone)),
     company_filled           |-> Len(OrEmpty(lead.company_name)) > MinName,
     needs_description_length |-> Len(OrEmpty(lead.needs_description)),
     needs_adequate           |-> Len(OrEmpty(lead.needs_description)) >= MinDescription,
     contact_name_filled      |-> Len(OrEmpty(lead.full_name)) > MinName]

\* The entries of the validation object that hold a number: a number is
\* never === true.
NumberEntries == {"needs_description_length"}

validFieldsTruthy(lead) ==
    LET v == validation(lead)
    IN  Cardinality({k \in DOMAIN v :
                        IF k \in NumberEntries THEN v[k] # 0 ELSE v[k]})

\* Object.values(validation).filter((v) => v === true).length
validFields(lead) ==
    LET v == validation(lead)
    IN  Cardinality({k \in DOMAIN v \ NumberEntries : v[k]})

spamIndicators(lead) ==
    << MatchesAnyI(OrEmpty(lead.needs_description),
                   {"viagra", "cialis", "casino", "crypto", "bitcoin"}),
       MatchesAnyI(OrEmpty(lead.needs_description),
                   {"click here", "buy now", "limited offer"}),
       Includes(OrEmpty(lead.needs_description), "http"),
       MatchesAnyI(OrEmpty(lead.email), {"@test", "@example", "@temp", "@fake"}) >>

isLikelySpamAny(lead) ==
    LET ind == spamIndicators(lead)
    IN  Cardinality({i \in DOMAIN ind : ind[i]}) >= 1

isLikelySpam(lead) ==
    LET ind == spamIndicators(lead)
    IN  Cardinality({i \in DOMAIN ind : ind[i]}) >= SpamThreshold

validateLead(lead) ==
    [lead               |-> lead,
     validation_score   |-> RoundPercent(validFields(lead), ScoreDenominator),
     is_likely_spam     |-> isLikelySpam(lead),
     validation_details |-> validation(lead)]

personalDomains ==
    {"gmail.com", "hotmail.com", "outlook.com", "icloud.com",
     "yahoo.com", "live.com", "hotmail.se", "outlook.se"}

\* The domain taken from the email, or None.
emailDomain(data) ==
    IF Truthy(data.email) /\ Includes(Val(data.email), "@")
       /\ ToLowerCase(SplitAt1(Val(data.email))) \notin personalDomains
    THEN Some(ToLowerCase(SplitAt1(Val(data.email))))
    ELSE None

cleanName(company_name) ==
    RemoveSpaces(StripSuffixI(StripSuffixI(ToLowerCase(company_name), "ab"),
                              "aktiebolag"))

extractDomain(data) ==
    LET fromEmail == emailDomain(data)
    IN  IF ~Truthy(fromEmail) /\ Truthy(data.company_name)
        THEN [extracted_domain |-> Some(cleanName(Val(data.company_name)) \o ".se"),
              domain_source    |-> "guessed"]
        ELSE [extracted_domain |-> fromEmail,
              domain_source    |-> IF IsSome(fromEmail) THEN "email" ELSE "none"]

normalizeCompanyData(formData, aiData, company_id) ==
    [company_id       |-> company_id,
     full_name        |-> formData.full_name,
     email            |-> formData.email,
     phone            |-> formData.phone,
     company_name     |-> formData.company_name,
     lead_score       |-> aiData.lead_score,
     role_category    |-> aiData.role_category,
     ai_reasoning     |-> aiData.ai_reasoning,
     classification   |-> aiData.classification]

\* prepareContactData throws when the lead has no email.
prepareContactDataThrows(formData) == ~Truthy(formData.email)

\* Contact data that keeps the email as it was typed.
prepareContactDataAsTyped(formData, switchData) ==
    [company_id |-> switchData.company_id,
     full_name  |-> formData.full_name,
     email      |-> Val(formData.email),
     phone      |-> formData.phone]

prepareContactData(formData, switchData) ==
    [company_id |-> switchData.company_id,
     full_name  |-> formData.full_name,
     email      |-> Trim(ToLowerCase(Val(formData.email))),
     phone      |-> formData.phone]

\* ------------------------------------------------------------------------
\* Request bodies and the request schema
\* ------------------------------------------------------------------------

Body(name, email, phone, company, message) ==
    Some([name |-> name, email |-> email, phone |-> phone,
          company |-> company, message |-> message])

LongMessage ==
    "Vi behover en junior utvecklare med erfarenhet av React och Node.js for vart team."

\* Scenario A: low score and spam.
BodySpamLow ==
    Body(Some("X"), Some("spamuser@fake.com"), Some("abc123"), Some("A"),
         Some("Buy now http://spamlink.com Viagra deals!"))

\* Low score, no spam indicator.
BodyLow ==
    Body(Some("Bo"), Some("bo@firma.se"), Some("123"), Some("AB"), Some("Short"))

\* High score, two spam indicators.
BodySpamHigh ==
    Body(Some("Spammer"), Some("spam@firma.se"), Some("+46 70 123 4567"),
         Some("Legit Company"),
         Some("Buy viagra now! Click here for limited offer, call us today please."))

\* Scenario B: a complete lead with a corporate email.
BodyTech ==
    Body(Some("Anna Svensson"), Some("anna@techcompany.se"),
         Some("+46 70 123 4567"), Some("Tech Company AB"), Some(LongMessage))

\* The same person and company, other capitalization.
BodyTechCaps ==
    Body(Some("Anna Svensson"), Some("Anna@TechCompany.se"),
         None, Some("TECH COMPANY AB"), Some(LongMessage))

\* A consumer mail address: the domain is guessed from the company name.
BodyGmail ==
    Body(Some("Erik Berg"), Some("erik@gmail.com"), Some("08-123 456 78"),
         Some("Nordea AB"), Some(LongMessage))

\* The same company under another mail domain, its name in lower case.
BodyTechGroup ==
    Body(Some("Anna Svensson"), Some("anna@techgroup.se"),
         Some("+46 70 123 4567"), Some("tech company ab"), Some(LongMessage))

BodyNoName ==
    Body(None, Some("test@test.com"), None, Some("ABC"), None)

BodyEmptyCompany ==
    Body(Some("Test"), Some("test@test.com"), None, Some(""), None)

BodyBadEmail ==
    Body(Some("Test"), Some("not-an-email"), None, Some("ABC"), None)

BodyNoEmail ==
    Body(Some("Test"), None, None, Some("ABC"), None)

\* null / undefined request body.
BodyNull == None

Bodies ==
    {BodySpamLow, BodyLow, BodySpamHigh, BodyTech, BodyTechCaps, BodyTechGroup,
     BodyGmail, BodyNoName, BodyEmptyCompany, BodyBadEmail, BodyNoEmail, BodyNull}

\* The request schema: an object whose name, email and company are non-empty
\* strings and whose email is a well-formed address.
parseWebhookRequest(body) ==
    /\ IsSome(body)
    /\ Truthy(Val(body).name)
    /\ Truthy(Val(body).company)
    /\ IsSome(Val(body).email)
    /\ EmailPattern(Val(body).email[1])

\* Step 2 of the handler: the structured form data.
structure(validatedBody) ==
    [full_name         |-> validatedBody.name,
     email             |-> validatedBody.email,
     phone             |-> validatedBody.phone,
     company_name      |-> validatedBody.company,
     needs_description |-> validatedBody.message]

\* ------------------------------------------------------------------------
\* Completion-service output (src/src/services/aiService.ts)
\* ------------------------------------------------------------------------

\* JSON values: [num |-> n], [str |-> s], [arr |-> <<values>>],
\* [obj |-> record of values].
IsNum(x) == "num" \in DOMAIN x

IsStr(x) == "str" \in DOMAIN x

IsArr(x) == "arr" \in DOMAIN x

IsObj(x) == "obj" \in DOMAIN x

Has(o, k) == k \in DOMAIN o.obj

ScoreDoc(score, tag) ==
    [obj |-> [lead_score       |-> [num |-> score],
              role_category    |-> [str |-> "IT"],
              classification   |-> [str |-> tag],
              key_requirements |-> [arr |-> << [str |-> "React"] >>],
              ai_reasoning     |-> [str |-> "Assessed"]]]

ScoreText(score, tag) ==
    "{\"lead_score\":" \o score \o ",\"role_category\":\"IT\",\"classification\":\""
    \o tag \o "\",\"key_requirements\":[\"React\"],\"ai_reasoning\":\"Assessed\"}"

JobAdDoc(title, url) ==
    [obj |-> [title        |-> [str |-> title],
              company      |-> [str |-> "Tech Company AB"],
              description  |-> [str |-> "Vi soker en utvecklare"],
              location     |-> [str |-> "Stockholm"],
              category     |-> [str |-> "IT"],
              external_url |-> [str |-> url],
              posted_date  |-> [str |-> "2025-01-01"]]]

JobAdText(title, url) ==
    "{\"title\":\"" \o title \o "\",\"company\":\"Tech Company AB\","
    \o "\"description\":\"Vi soker en utvecklare\",\"location\":\"Stockholm\","
    \o "\"category\":\"IT\",\"external_url\":\"" \o url
    \o "\",\"posted_date\":\"2025-01-01\"}"

\* The JSON documents of the model: text and the value JSON.parse gives.
JsonDocs ==
    { [text |-> ScoreText("85", "valid_lead"),       value |-> ScoreDoc(85, "valid_lead")],
      [text |-> ScoreText("20", "invalid_lead"),     value |-> ScoreDoc(20, "invalid_lead")],
      [text |-> ScoreText("10", "likely_candidate"), value |-> ScoreDoc(10, "likely_candidate")],
      [text |-> ScoreText("5", "likely_spam"),       value |-> ScoreDoc(5, "likely_spam")],
      [text |-> ScoreText("0", "valid_lead"),        value |-> ScoreDoc(0, "valid_lead")],
      [text |-> ScoreText("50", "maybe_lead"),       value |-> ScoreDoc(50, "maybe_lead")],
      [text |-> JobAdText("Junior utvecklare", "https://rookiework.se/jobs/junior"),
       value |-> JobAdDoc("Junior utvecklare", "https://rookiework.se/jobs/junior")],
      [text |-> JobAdText("", "https://rookiework.se/jobs/junior"),
       value |-> JobAdDoc("", "https://rookiework.se/jobs/junior")],
      [text |-> JobAdText("Junior utvecklare", "not-a-url"),
       value |-> JobAdDoc("Junior utvecklare", "not-a-url")] }

\* JSON.parse: None when the text is not a JSON document (a SyntaxError).
\* Whitespace around the document is allowed.
JSONparse(text) ==
    LET hit == {d \in JsonDocs : d.text = Trim(text)}
    IN  IF hit = {} THEN None ELSE Some((CHOOSE d \in hit : TRUE).value)

\* The Markdown code fence, three backquotes. A TLA+ string cannot hold a
\* backquote: the model writes the backquote as the character ~, which
\* occurs in no other text of the model.
Fence == "~~~"

\* content.replace(/^<fence>json\s*/i, ''), <fence> being the code fence
StripFenceOpen(s) ==
    IF Len(s) >= 7 /\ ToLowerCase(SubSeq(s, 1, 7)) = Fence \o "json"
    THEN TrimStart(SubSeq(s, 8, Len(s)))
    ELSE s

\* content.replace(/\s*<fence>\s*$/, ''): the leftmost place from which the rest
\* of s is whitespace, a fence and whitespace.
StripFenceClose(s) ==
    LET tail == TrimEnd(s)
    IN  IF Len(tail) >= 3 /\ SubSeq(tail, Len(tail) - 2, Len(tail)) = Fence
        THEN TrimEnd(SubSeq(tail, 1, Len(tail) - 3))
        ELSE s

cleanContent(content) == Trim(StripFenceClose(StripFenceOpen(content)))

Classifications == {"valid_lead", "invalid_lead", "likely_candidate", "likely_spam"}

MinScore == 1

MaxScore == 100

\* AIScoreResultSchema.safeParse(x).success
AIScoreResultSchema(x) ==
    /\ IsObj(x)
    /\ Has(x, "lead_score") /\ IsNum(x.obj.lead_score)
    /\ x.obj.lead_score.num >= MinScore /\ x.obj.lead_score.num <= MaxScore
    /\ Has(x, "role_category") /\ IsStr(x.obj.role_category)
    /\ Has(x, "classification") /\ IsStr(x.obj.classification)
    /\ x.obj.classification.str \in Classifications
    /\ Has(x, "key_requirements") /\ IsArr(x.obj.key_requirements)
    /\ \A i \in DOMAIN x.obj.key_requirements.arr :
          IsStr(x.obj.key_requirements.arr[i])
    /\ Has(x, "ai_reasoning") /\ IsStr(x.obj.ai_reasoning)

\* validated.data of a scoring output the schema accepts.
AIScoreData(x) ==
    [lead_score     |-> x.obj.lead_score.num,
     role_category  |-> x.obj.role_category.str,
     classification |-> x.obj.classification.str,
     ai_reasoning   |-> x.obj.ai_reasoning.str]

\* z.string().url() over the texts of the model: a scheme, "://" and a host.
IsUrl(s) ==
    \E i \in 2..(Len(s) - 3) :
        /\ MatchAt(s, "://", i)
        /\ \A j \in 1..(i - 1) : LowerChar(Char(s, j)) \in {Lower[k] : k \in 1..26}

NonEmptyStr(x, k) == Has(x, k) /\ IsStr(x.obj[k]) /\ Len(x.obj[k].str) >= 1

\* A schema that asks for the fields but lets title and URL be any string.
JobAdDataSchemaLax(x) ==
    /\ IsObj(x)
    /\ Has(x, "title") /\ IsStr(x.obj.title)
    /\ NonEmptyStr(x, "company")
    /\ NonEmptyStr(x, "description")
    /\ NonEmptyStr(x, "location")
    /\ NonEmptyStr(x, "category")
    /\ Has(x, "external_url") /\ IsStr(x.obj.external_url)
    /\ Has(x, "posted_date") /\ IsStr(x.obj.posted_date)

\* JobAdDataSchema.safeParse(x).success
JobAdDataSchema(x) ==
    /\ IsObj(x)
    /\ NonEmptyStr(x, "title")
    /\ NonEmptyStr(x, "company")
    /\ NonEmptyStr(x, "description")
    /\ NonEmptyStr(x, "location")
    /\ NonEmptyStr(x, "category")
    /\ Has(x, "external_url") /\ IsStr(x.obj.external_url)
    /\ IsUrl(x.obj.external_url.str)
    /\ Has(x, "posted_date") /\ IsStr(x.obj.posted_date)

JobAdData(x) ==
    [title        |-> x.obj.title.str,
     external_url |-> x.obj.external_url.str]

\* What a completion call gives: the call fails ("error"), or it returns a
\* message whose content is null (None) or a text.
Completion(content) == [kind |-> "ok", content |-> content]

CompletionError == [kind |-> "error", content |-> None]

ScoreCompletions ==
    { CompletionError,
      Completion(None),
      Completion(Some("Sorry, I cannot help with that.")),
      Completion(Some(ScoreText("85", "valid_lead"))),
      Completion(Some(Fence \o "json\n" \o ScoreText("85", "valid_lead") \o "\n" \o Fence)),
      Completion(Some(ScoreText("20", "invalid_lead"))),
      Completion(Some(ScoreText("10", "likely_candidate"))),
      Completion(Some(ScoreText("5", "likely_spam"))),
      Completion(Some(ScoreText("0", "valid_lead"))),
      Completion(Some(ScoreText("50", "maybe_lead"))) }

JobAdCompletions ==
    { CompletionError,
      Completion(Some(JobAdText("Junior utvecklare", "https://rookiework.se/jobs/junior"))),
      Completion(Some(JobAdText("Junior utvecklare", "not-a-url"))) }

\* A scoreLead that answers an output it cannot use with a default
\* classification.
scoreLeadResultDefault(c) ==
    IF c.kind = "error"
    THEN [ok |-> FALSE, error |-> "AI scoring failed: completion service error"]
    ELSE LET jsonParsed == IF Truthy(c.content)
                           THEN JSONparse(cleanContent(Val(c.content))) ELSE None
         IN  IF jsonParsed # None /\ AIScoreResultSchema(Val(jsonParsed))
             THEN [ok |-> TRUE, data |-> AIScoreData(Val(jsonParsed))]
             ELSE [ok |-> TRUE,
                   data |-> [lead_score |-> 1, role_category |-> "",
                             classification |-> "invalid_lead",
                             ai_reasoning |-> "unusable output"]]

\* The body of scoreLead after the completion call returned c: the result,
\* or the error it throws.
scoreLeadResult(c) ==
    IF c.kind = "error"
    THEN [ok |-> FALSE, error |-> "AI scoring failed: completion service error"]
    ELSE IF ~Truthy(c.content)
    THEN [ok |-> FALSE, error |-> "AI scoring failed: No content in OpenAI response"]
    ELSE LET jsonParsed == JSONparse(cleanContent(Val(c.content)))
         IN  IF jsonParsed = None
             THEN [ok |-> FALSE, error |-> "AI scoring failed: Unexpected token"]
             ELSE IF ~AIScoreResultSchema(Val(jsonParsed))
             THEN [ok |-> FALSE, error |-> "AI scoring failed: Invalid AI response structure"]
             ELSE [ok |-> TRUE, data |-> AIScoreData(Val(jsonParsed))]

\* The body of generateJobAd after the completion call returned c.
generateJobAdResult(c) ==
    IF c.kind = "error"
    THEN [ok |-> FALSE, error |-> "Job ad generation failed: completion service error"]
    ELSE IF ~Truthy(c.content)
    THEN [ok |-> FALSE, error |-> "Job ad generation failed: No content in OpenAI response"]
    ELSE LET jsonParsed == JSONparse(cleanContent(Val(c.content)))
         IN  IF jsonParsed = None
             THEN [ok |-> FALSE, error |-> "Job ad generation failed: Unexpected token"]
             ELSE IF ~JobAdDataSchema(Val(jsonParsed))
             THEN [ok |-> FALSE,
                   error |-> "Job ad generation failed: Invalid job ad response structure"]
             ELSE [ok |-> TRUE, data |-> JobAdData(Val(jsonParsed))]

\* The results of the pure stages over the inputs of the model, computed once.
scoreLeadResults == [c \in ScoreCompletions |-> scoreLeadResult(c)]

generateJobAdResults == [c \in JobAdCompletions |-> generateJobAdResult(c)]

ParsedBodies == {b \in Bodies : parseWebhookRequest(b)}

validatedLeads == [b \in ParsedBodies |-> validateLead(structure(Val(b)))]

\* The same, by the structured form data.
validatedForms ==
    [f \in {structure(Val(b)) : b \in ParsedBodies} |-> validateLead(f)]

\* ------------------------------------------------------------------------
\* State
\* ------------------------------------------------------------------------

VARIABLES
    run,              \* per request: the handler's position and locals
    calls,            \* per request: how often each operation was invoked
    companies,        \* table companies
    signals,          \* table signals
    contacts,         \* table contacts
    website_jobs,     \* table website_jobs
    rejected_leads,   \* table rejected_leads
    candidate_leads,  \* table candidate_leads
    emails,           \* messages the mailer accepted
    adminAlertEmail,  \* config.adminAlert.email, None when not configured
    webhookSecret,    \* config.webhook.secret, None when not configured
    process,          \* the server process: its HTTP server, timers and exit code
    faults            \* external calls that failed so far

vars == << run, calls, companies, signals, contacts, website_jobs,
           rejected_leads, candidate_leads, emails, adminAlertEmail, webhookSecret, process, faults >>

tables == << companies, signals, contacts, website_jobs,
             rejected_leads, candidate_leads >>

Operations ==
    {"validateLead", "scoreLead", "findOrCreateCompany", "createSignal",
     "upsertContact", "generateJobAd", "createJobAdRecord", "sendEmailToLead",
     "insertRejectedLead", "insertCandidateLead", "fallbackInsert",
     "sendAdminAlert"}

\* The handler's locals before the request arrives.
\* The process after app.listen: the server accepts connections, no signal
\* was received, no close callback and no timer is registered.
InitProcess ==
    [server         |-> "listening",
     closeCallbacks |-> << >>,
     timeouts       |-> 0,
     timedOut       |-> FALSE,
     signals        |-> 0,
     exitCode       |-> None]

InitRun ==
    [pc           |-> "idle",
     body         |-> None,
     formData     |-> None,
     aiScore      |-> None,
     p_name       |-> None,
     p_domain     |-> None,
     v_company_id |-> None,
     companyId    |-> None,
     contactP     |-> "none",
     jobAdP       |-> "none",
     jobAd        |-> None,
     error        |-> None,
     response     |-> None,
     validatedData  |-> None,
     dataWithDomain |-> None,
     jsonParsed     |-> None,
     validated      |-> None,
     signature      |-> None,
     rawBody        |-> None,
     content        |-> None,
     cleanContent   |-> None]

Init ==
    /\ run = [r \in AllRuns |-> InitRun]
    /\ calls = [r \in AllRuns |-> [op \in Operations |-> 0]]
    /\ companies = {}
    /\ signals = {}
    /\ contacts = {}
    /\ website_jobs = {}
    /\ rejected_leads = {}
    /\ candidate_leads = {}
    /\ emails = {}
    /\ adminAlertEmail \in {None, Some("admin@rookiework.se")}
    /\ webhookSecret = None
    /\ process = InitProcess
    /\ faults = 0

\* ------------------------------------------------------------------------
\* The handler of POST /api/webhook (src/src/routes/webhook.ts)
\* ------------------------------------------------------------------------

\* An external call may fail while the fault budget lasts.
MayFail == faults < MaxFaults

Fault(ok) == faults' = IF ok THEN faults ELSE faults + 1

Called(r, ops) ==
    calls' = [calls EXCEPT ![r] =
                [op \in Operations |-> IF op \in ops THEN @[op] + 1 ELSE @[op]]]

\* res.status(status).json(body)
Respond(st, status, body) ==
    [st EXCEPT !.pc = "done", !.response = Some([status |-> status, body |-> body])]

\* Date.now() - startTime: some number of milliseconds.
ProcessingTime == "elapsed"

\* A response that reports a score and a title whatever the branch.
SuccessResponseScored(message, classification, lead_score, job_ad_title, reason) ==
    [success        |-> TRUE,
     message        |-> message,
     classification |-> classification,
     lead_score     |-> Some(0),
     job_ad_title   |-> Some(""),
     reason         |-> reason,
     processingTime |-> Some(ProcessingTime)]

SuccessResponse(message, classification, lead_score, job_ad_title, reason) ==
    [success        |-> TRUE,
     message        |-> message,
     classification |-> classification,
     lead_score     |-> lead_score,
     job_ad_title   |-> job_ad_title,
     reason         |-> reason,
     processingTime |-> Some(ProcessingTime)]

\* A refusal that reads as a success.
ErrorResponseAccepted ==
    [success        |-> TRUE,
     message        |-> "Invalid request data",
     classification |-> None,
     lead_score     |-> None,
     job_ad_title   |-> None,
     reason         |-> None,
     processingTime |-> Some(ProcessingTime)]

ErrorResponse ==
    [success        |-> FALSE,
     message        |-> "Invalid request data",
     classification |-> None,
     lead_score     |-> None,
     job_ad_title   |-> None,
     reason         |-> None,
     processingTime |-> Some(ProcessingTime)]

\* A recovery response that reports the failure.
RecoveryResponseFailure ==
    [success        |-> FALSE,
     message        |-> "Internal server error",
     classification |-> None,
     lead_score     |-> None,
     job_ad_title   |-> None,
     reason         |-> None,
     processingTime |-> Some(ProcessingTime)]

RecoveryResponse ==
    SuccessResponse("Submission received and will be processed", None, None, None, None)

\* A catch block that answers at once.
CatchWithoutFallback(st, msg) ==
    Respond([st EXCEPT !.error = Some(msg)], 200,
            SuccessResponse("Submission received and will be processed",
                            None, None, None, None))

\* Entering the catch block with error message msg: with form data, the
\* fallback write to rejected_leads is started; without, the response is sent.
Catch(st, msg) ==
    IF IsSome(st.formData)
    THEN [st EXCEPT !.pc = "fallback", !.error = Some(msg)]
    ELSE Respond([st EXCEPT !.error = Some(msg)], 200, RecoveryResponse)

\* A catch block that alerts the operator before the fallback write and
\* again after it.
CatchCallsAlertingTwice(st) ==
    IF IsSome(st.formData) THEN {"fallbackInsert", "sendAdminAlert"} ELSE {}

\* The operations the catch block starts at once: the call
\* insertRejectedLead(formData, 'processing_error', ...) is counted apart
\* from the pipeline's own calls of insertRejectedLead.
CatchCalls(st) == IF IsSome(st.formData) THEN {"fallbackInsert"} ELSE {}

passesValidationOnScore(validatedData) == validatedData.validation_score > 30

\* A gate that asks for half of the score.
passesValidationFromHalf(validatedData) ==
    validatedData.validation_score >= 50 /\ ~validatedData.is_likely_spam

\* Step 3 of the handler.
passesValidation(validatedData) ==
    validatedData.validation_score > 30 /\ ~validatedData.is_likely_spam

\* A row of rejected_leads.
RejectedRow(r, leadData, classification, aiReasoning) ==
    [id             |-> r,
     full_name      |-> leadData.full_name,
     email          |-> leadData.email,
     company_name   |-> leadData.company_name,
     classification |-> classification,
     ai_reasoning   |-> aiReasoning]

\* insertRejectedLead(leadData) with one argument: the tag and the reasoning
\* of a fast-rejected row.
DefaultRejectClassification == "spam"

DefaultRejectReasoning == "N/A (fast reject)"

\* The request arrives: the handler runs to its first await. An invalid body
\* is answered 400; a lead that fails validation starts the fast-reject
\* write; any other lead starts the classification call.
Receive(r, body) ==
    /\ run[r].pc = "idle"
    /\ IF body \notin ParsedBodies
       THEN /\ run' = [run EXCEPT ![r] =
                   Respond([@ EXCEPT !.body = body], 400, ErrorResponse)]
            /\ UNCHANGED calls
       ELSE LET validatedData == validatedLeads[body]
                formData      == validatedData.lead
                st            == [run[r] EXCEPT !.body = body,
                                                !.formData = Some(formData)]
            IN  IF ~passesValidation(validatedData)
                THEN /\ run' = [run EXCEPT ![r] = [st EXCEPT !.pc = "fastreject"]]
                     /\ Called(r, {"validateLead", "insertRejectedLead"})
                ELSE /\ run' = [run EXCEPT ![r] = [st EXCEPT !.pc = "score"]]
                     /\ Called(r, {"validateLead", "scoreLead"})
    /\ UNCHANGED << tables, emails, adminAlertEmail, webhookSecret, process, faults >>

\* The fast-reject write returns.
FastRejectInserted(r, ok) ==
    /\ run[r].pc = "fastreject"
    /\ ok \/ MayFail
    /\ Fault(ok)
    /\ IF ok
       THEN /\ rejected_leads' = rejected_leads \cup
                   {RejectedRow(r, Val(run[r].formData),
                                DefaultRejectClassification, DefaultRejectReasoning)}
            /\ run' = [run EXCEPT ![r] = Respond(@, 200,
                   SuccessResponse("Lead received but classified as spam (fast reject)",
                                   Some("spam"), None, None, None))]
            /\ UNCHANGED calls
       ELSE /\ run' = [run EXCEPT ![r] =
                   Catch(@, "Failed to insert rejected lead: store error")]
            /\ Called(r, CatchCalls(run[r]))
            /\ UNCHANGED rejected_leads
    /\ UNCHANGED << companies, signals, contacts, website_jobs, candidate_leads,
                    emails, adminAlertEmail, webhookSecret, process >>

\* A switch that treats a job seeker as a lead.
RouteCandidateAsLead(classification) ==
    CASE classification = "valid_lead"       -> "rpc1"
      [] classification = "invalid_lead"     -> "invalid"
      [] classification = "likely_candidate" -> "rpc1"
      [] classification = "likely_spam"      -> "spam"
      [] OTHER                               -> "throw"

\* A switch whose likely_spam case falls into the invalid_lead case.
RouteSpamAsInvalid(classification) ==
    CASE classification = "valid_lead"       -> "rpc1"
      [] classification = "invalid_lead"     -> "invalid"
      [] classification = "likely_candidate" -> "candidate"
      [] classification = "likely_spam"      -> "invalid"
      [] OTHER                               -> "throw"

\* A switch whose default branch handles the submission as an invalid lead.
RouteUnknownAsInvalid(classification) ==
    CASE classification = "valid_lead"       -> "rpc1"
      [] classification = "invalid_lead"     -> "invalid"
      [] classification = "likely_candidate" -> "candidate"
      [] classification = "likely_spam"      -> "spam"
      [] OTHER                               -> "invalid"

\* Step 5 of the handler: the switch on the classification; the position the
\* handler awaits at next, "throw" for the default branch.
Route(classification) ==
    CASE classification = "valid_lead"       -> "rpc1"
      [] classification = "invalid_lead"     -> "invalid"
      [] classification = "likely_candidate" -> "candidate"
      [] classification = "likely_spam"      -> "spam"
      [] OTHER                               -> "throw"

\* Branches that classify once more before they act.
RouteCallRescoring(classification) ==
    CASE classification = "valid_lead"       -> {"scoreLead", "findOrCreateCompany"}
      [] classification = "invalid_lead"     -> {"scoreLead", "insertRejectedLead"}
      [] classification = "likely_candidate" -> {"scoreLead", "insertCandidateLead"}
      [] classification = "likely_spam"      -> {"scoreLead", "insertRejectedLead"}
      [] OTHER                               -> {}

\* The operation each branch of the switch starts.
RouteCall(classification) ==
    CASE classification = "valid_lead"       -> {"findOrCreateCompany"}
      [] classification = "invalid_lead"     -> {"insertRejectedLead"}
      [] classification = "likely_candidate" -> {"insertCandidateLead"}
      [] classification = "likely_spam"      -> {"insertRejectedLead"}
      [] OTHER                               -> {}

\* Steps 6 and 7 of the handler: extractDomain, then findOrCreateCompany is
\* called with dataWithDomain.company_name || '' and the extracted domain.
CallFindOrCreate(st) ==
    [st EXCEPT !.pc       = "rpc1",
               !.p_name   = Some(OrEmpty(Val(st.formData).company_name)),
               !.p_domain = extractDomain(Val(st.formData)).extracted_domain]

\* The completion call of scoreLead returns c; on success the handler routes.
ScoreLeadReturns(r, c) ==
    /\ run[r].pc = "score"
    /\ LET res == scoreLeadResults[c]
       IN  /\ c.kind = "ok" \/ MayFail
           /\ Fault(c.kind = "ok")
           /\ IF ~res.ok
              THEN /\ run' = [run EXCEPT ![r] = Catch(@, res.error)]
                   /\ Called(r, CatchCalls(run[r]))
              ELSE LET st == [run[r] EXCEPT !.aiScore = Some(res.data)]
                       to == Route(res.data.classification)
                   IN  IF to = "throw"
                       THEN /\ run' = [run EXCEPT ![r] =
                                   Catch(st, "Unknown classification")]
                            /\ Called(r, CatchCalls(st))
                       ELSE /\ run' = [run EXCEPT ![r] =
                                   IF to = "rpc1" THEN CallFindOrCreate(st)
                                   ELSE [st EXCEPT !.pc = to]]
                            /\ Called(r, RouteCall(res.data.classification))
    /\ UNCHANGED << tables, emails, adminAlertEmail, webhookSecret, process >>

\* ------------------------------------------------------------------------
\* find_or_create_company (stored procedure; called by findOrCreateCompany)
\* ------------------------------------------------------------------------

\* SELECT id FROM companies WHERE domain = p_domain LIMIT 1: the ids the
\* statement may give (any matching row), None when no row matches.
SelectByDomain(domain) ==
    LET hit == {c \in companies : IsSome(c.domain) /\ c.domain = domain}
    IN  IF hit = {} THEN {None} ELSE {Some(c.id) : c \in hit}

\* A lookup by name that compares the names as they are written.
SelectByNameExact(name) ==
    LET hit == {c \in companies : c.name = name}
    IN  IF hit = {} THEN {None} ELSE {Some(c.id) : c \in hit}

\* SELECT id FROM companies WHERE LOWER(name) = LOWER(p_name) LIMIT 1
SelectByName(name) ==
    LET hit == {c \in companies : ToLowerCase(c.name) = ToLowerCase(name)}
    IN  IF hit = {} THEN {None} ELSE {Some(c.id) : c \in hit}

\* The call fails before the procedure ran (store unavailable).
RpcFails(r) ==
    /\ run[r].pc = "rpc1"
    /\ MayFail
    /\ Fault(FALSE)
    /\ run' = [run EXCEPT ![r] =
                 Catch(@, "Failed to find/create company: store error")]
    /\ Called(r, CatchCalls(run[r]))
    /\ UNCHANGED << tables, emails, adminAlertEmail, webhookSecret, process >>

\* First statement: IF p_domain IS NOT NULL THEN SELECT ... by domain.
RpcSelectByDomain(r) ==
    /\ run[r].pc = "rpc1"
    /\ \E v \in (IF IsSome(run[r].p_domain)
                 THEN SelectByDomain(run[r].p_domain) ELSE {None}) :
          run' = [run EXCEPT ![r].pc = "rpc2", ![r].v_company_id = v]
    /\ UNCHANGED << calls, tables, emails, adminAlertEmail, webhookSecret, process, faults >>

\* Second statement: IF v_company_id IS NULL THEN SELECT ... by name.
RpcSelectByName(r) ==
    /\ run[r].pc = "rpc2"
    /\ \E v \in (IF run[r].v_company_id = None
                 THEN SelectByName(Val(run[r].p_name)) ELSE {run[r].v_company_id}) :
          run' = [run EXCEPT ![r].pc = "rpc3", ![r].v_company_id = v]
    /\ UNCHANGED << calls, tables, emails, adminAlertEmail, webhookSecret, process, faults >>

\* Third statement and RETURN: IF v_company_id IS NULL THEN INSERT. The new
\* row's id is fresh (the id of the request that inserts it). The handler
\* goes on to step 8 and starts createSignal.
RpcInsertReturn(r) ==
    /\ run[r].pc = "rpc3"
    /\ LET v == IF run[r].v_company_id = None THEN Some(r) ELSE run[r].v_company_id
       IN  /\ companies' =
                 IF run[r].v_company_id = None
                 THEN companies \cup {[id     |-> r,
                                       name   |-> Val(run[r].p_name),
                                       domain |-> run[r].p_domain]}
                 ELSE companies
           /\ run' = [run EXCEPT ![r].pc = "signal",
                                 ![r].v_company_id = None,
                                 ![r].companyId = v]
    /\ Called(r, {"createSignal"})
    /\ UNCHANGED << signals, contacts, website_jobs, rejected_leads,
                    candidate_leads, emails, adminAlertEmail, webhookSecret, process, faults >>

\* ------------------------------------------------------------------------
\* The valid_lead branch after company resolution
\* ------------------------------------------------------------------------

\* A signal that carries the tag but not the score.
SignalRowUnscored(r, st) ==
    [id             |-> r,
     company_id     |-> Val(st.companyId),
     email          |-> Val(st.formData).email,
     lead_score     |-> 0,
     classification |-> Val(st.aiScore).classification]

SignalRow(r, st) ==
    [id             |-> r,
     company_id     |-> Val(st.companyId),
     email          |-> Val(st.formData).email,
     lead_score     |-> Val(st.aiScore).lead_score,
     classification |-> Val(st.aiScore).classification]

\* createSignal returns. Steps 9 and 10 run, then upsertContact and
\* generateJobAd are both started (Promise.all).
SignalInserted(r, ok) ==
    /\ run[r].pc = "signal"
    /\ ok \/ MayFail
    /\ Fault(ok)
    /\ IF ~ok
       THEN /\ run' = [run EXCEPT ![r] = Catch(@, "Failed to create signal: store error")]
            /\ Called(r, CatchCalls(run[r]))
            /\ UNCHANGED signals
       ELSE /\ signals' = signals \cup {SignalRow(r, run[r])}
            /\ IF prepareContactDataThrows(Val(run[r].formData))
               THEN /\ run' = [run EXCEPT ![r] = Catch(@, "No email provided for contact")]
                    /\ Called(r, CatchCalls(run[r]))
               ELSE /\ run' = [run EXCEPT ![r].pc = "all",
                                          ![r].contactP = "pending",
                                          ![r].jobAdP = "pending"]
                    /\ Called(r, {"upsertContact", "generateJobAd"})
    /\ UNCHANGED << companies, contacts, website_jobs, rejected_leads,
                    candidate_leads, emails, adminAlertEmail, webhookSecret, process >>

\* Contact data that takes the company id from the newest company row of
\* the store, not from the call of its own run.
contactDataNewestCompany(st) ==
    prepareContactData(Val(st.formData),
        normalizeCompanyData(Val(st.formData), Val(st.aiScore),
            CHOOSE i \in {c.id : c \in companies} :
                \A c \in companies : c.id <= i))

contactData(st) ==
    prepareContactData(Val(st.formData),
        normalizeCompanyData(Val(st.formData), Val(st.aiScore), Val(st.companyId)))

\* upsert with onConflict: 'company_id,email'
Upsert(table, row) ==
    {c \in table : ~(c.company_id = row.company_id /\ c.email = row.email)}
        \cup {row}

\* A handler that goes on as soon as one of the two promises is fulfilled.
AllSettlesAny(st, ok, otherP, msg) ==
    IF st.pc # "all" THEN st
    ELSE IF ~ok THEN Catch(st, msg)
    ELSE [st EXCEPT !.pc = "jobrec"]

\* A join that goes on without the contact: a rejection of upsertContact
\* counts as settled.
AllSettlesContactOptional(st, ok, otherP, msg) ==
    IF st.pc # "all" THEN st
    ELSE IF ~ok /\ msg # "Failed to upsert contact: store error" THEN Catch(st, msg)
    ELSE IF otherP \in {"fulfilled", "rejected"} THEN [st EXCEPT !.pc = "jobrec"]
    ELSE st

\* What the handler does when one promise of Promise.all settles: the first
\* rejection enters the catch block; the last fulfilment starts
\* createJobAdRecord (step 13); a promise that settles after Promise.all
\* already rejected changes nothing in the handler.
AllSettles(st, ok, otherP, msg) ==
    IF st.pc # "all" THEN st
    ELSE IF ~ok THEN Catch(st, msg)
    ELSE IF otherP = "fulfilled" THEN [st EXCEPT !.pc = "jobrec"]
    ELSE st

AllSettlesCalls(st, ok, otherP) ==
    IF st.pc # "all" THEN {}
    ELSE IF ~ok THEN CatchCalls(st)
    ELSE IF otherP = "fulfilled" THEN {"createJobAdRecord"}
    ELSE {}

\* upsertContact returns.
ContactUpserted(r, ok) ==
    /\ run[r].contactP = "pending"
    /\ ok \/ MayFail
    /\ Fault(ok)
    /\ contacts' = IF ok THEN Upsert(contacts, contactData(run[r])) ELSE contacts
    /\ LET st == [run[r] EXCEPT !.contactP = IF ok THEN "fulfilled" ELSE "rejected"]
       IN  /\ run' = [run EXCEPT ![r] =
                  AllSettles(st, ok, st.jobAdP, "Failed to upsert contact: store error")]
           /\ Called(r, AllSettlesCalls(st, ok, st.jobAdP))
    /\ UNCHANGED << companies, signals, website_jobs, rejected_leads,
                    candidate_leads, emails, adminAlertEmail, webhookSecret, process >>

\* The completion call of generateJobAd returns c.
JobAdGenerated(r, c) ==
    /\ run[r].jobAdP = "pending"
    /\ LET res == generateJobAdResults[c]
           st  == [run[r] EXCEPT
                     !.jobAdP = IF res.ok THEN "fulfilled" ELSE "rejected",
                     !.jobAd  = IF res.ok THEN Some(res.data) ELSE None]
       IN  /\ c.kind = "ok" \/ MayFail
           /\ Fault(c.kind = "ok")
           /\ run' = [run EXCEPT ![r] =
                  AllSettles(st, res.ok, st.contactP,
                             IF res.ok THEN "" ELSE res.error)]
           /\ Called(r, AllSettlesCalls(st, res.ok, st.contactP))
    /\ UNCHANGED << tables, emails, adminAlertEmail, webhookSecret, process >>

\* A job ad row titled with the company's name.
JobAdRowCompanyTitle(r, st) ==
    [id         |-> r,
     company_id |-> Val(st.companyId),
     title      |-> OrEmpty(Val(st.formData).company_name),
     ai_score   |-> Val(st.aiScore).lead_score]

\* A job ad row keyed by its company: a second job ad of the company
\* replaces the first.
JobAdRowPerCompany(r, st) ==
    [id         |-> Val(st.companyId),
     company_id |-> Val(st.companyId),
     title      |-> Val(st.jobAd).title,
     ai_score   |-> Val(st.aiScore).lead_score]

JobAdRow(r, st) ==
    [id         |-> r,
     company_id |-> Val(st.companyId),
     title      |-> Val(st.jobAd).title,
     ai_score   |-> Val(st.aiScore).lead_score]

\* createJobAdRecord returns; on success sendEmailToLead is started.
JobAdRecordInserted(r, ok) ==
    /\ run[r].pc = "jobrec"
    /\ ok \/ MayFail
    /\ Fault(ok)
    /\ IF ok
       THEN /\ website_jobs' = website_jobs \cup {JobAdRow(r, run[r])}
            /\ run' = [run EXCEPT ![r].pc = "email"]
            /\ Called(r, {"sendEmailToLead"})
       ELSE /\ run' = [run EXCEPT ![r] =
                   Catch(@, "Failed to create job ad record: store error")]
            /\ Called(r, CatchCalls(run[r]))
            /\ UNCHANGED website_jobs
    /\ UNCHANGED << companies, signals, contacts, rejected_leads,
                    candidate_leads, emails, adminAlertEmail, webhookSecret, process >>

\* The address sendEmailToLead sends to.
ConfirmationRecipient == "rookiework.dev@gmail.com"

\* sendEmailToLead returns; on success the valid_lead response is sent.
LeadEmailSent(r, ok) ==
    /\ run[r].pc = "email"
    /\ ok \/ MayFail
    /\ Fault(ok)
    /\ IF ok
       THEN /\ emails' = emails \cup
                   {[kind |-> "confirmation", id |-> r, to |-> ConfirmationRecipient]}
            /\ run' = [run EXCEPT ![r] = Respond(@, 200,
                   SuccessResponse("Valid lead processed successfully",
                                   Some("valid_lead"),
                                   Some(Val(run[r].aiScore).lead_score),
                                   Some(Val(run[r].jobAd).title),
                                   None))]
            /\ UNCHANGED calls
       ELSE /\ run' = [run EXCEPT ![r] = Catch(@, "Failed to send email: mailer error")]
            /\ Called(r, CatchCalls(run[r]))
            /\ UNCHANGED emails
    /\ UNCHANGED << tables, adminAlertEmail, webhookSecret, process >>

\* ------------------------------------------------------------------------
\* The invalid_lead, likely_candidate and likely_spam branches
\* ------------------------------------------------------------------------

\* insertRejectedLead(formData, aiScore.classification, aiScore.ai_reasoning)
\* returns.
InvalidInserted(r, ok) ==
    /\ run[r].pc = "invalid"
    /\ ok \/ MayFail
    /\ Fault(ok)
    /\ IF ok
       THEN /\ rejected_leads' = rejected_leads \cup
                   {RejectedRow(r, Val(run[r].formData),
                                Val(run[r].aiScore).classification,
                                Val(run[r].aiScore).ai_reasoning)}
            /\ run' = [run EXCEPT ![r] = Respond(@, 200,
                   SuccessResponse("Lead classified as invalid", Some("invalid_lead"),
                                   None, None, Some(Val(run[r].aiScore).ai_reasoning)))]
            /\ UNCHANGED calls
       ELSE /\ run' = [run EXCEPT ![r] =
                   Catch(@, "Failed to insert rejected lead: store error")]
            /\ Called(r, CatchCalls(run[r]))
            /\ UNCHANGED rejected_leads
    /\ UNCHANGED << companies, signals, contacts, website_jobs, candidate_leads,
                    emails, adminAlertEmail, webhookSecret, process >>

CandidateRow(r, leadData, aiData) ==
    [id           |-> r,
     full_name    |-> leadData.full_name,
     email        |-> leadData.email,
     ai_reasoning |-> aiData.ai_reasoning]

\* insertCandidateLead(formData, aiScore) returns.
CandidateInserted(r, ok) ==
    /\ run[r].pc = "candidate"
    /\ ok \/ MayFail
    /\ Fault(ok)
    /\ IF ok
       THEN /\ candidate_leads' = candidate_leads \cup
                   {CandidateRow(r, Val(run[r].formData), Val(run[r].aiScore))}
            /\ run' = [run EXCEPT ![r] = Respond(@, 200,
                   SuccessResponse("Lead classified as job seeker",
                                   Some("likely_candidate"), None, None, None))]
            /\ UNCHANGED calls
       ELSE /\ run' = [run EXCEPT ![r] =
                   Catch(@, "Failed to insert candidate lead: store error")]
            /\ Called(r, CatchCalls(run[r]))
            /\ UNCHANGED candidate_leads
    /\ UNCHANGED << companies, signals, contacts, website_jobs, rejected_leads,
                    emails, adminAlertEmail, webhookSecret, process >>

\* insertRejectedLead(formData, 'likely_spam', aiScore.ai_reasoning) returns.
SpamInserted(r, ok) ==
    /\ run[r].pc = "spam"
    /\ ok \/ MayFail
    /\ Fault(ok)
    /\ IF ok
       THEN /\ rejected_leads' = rejected_leads \cup
                   {RejectedRow(r, Val(run[r].formData), "likely_spam",
                                Val(run[r].aiScore).ai_reasoning)}
            /\ run' = [run EXCEPT ![r] = Respond(@, 200,
                   SuccessResponse("Lead classified as spam", Some("likely_spam"),
                                   None, None, None))]
            /\ UNCHANGED calls
       ELSE /\ run' = [run EXCEPT ![r] =
                   Catch(@, "Failed to insert rejected lead: store error")]
            /\ Called(r, CatchCalls(run[r]))
            /\ UNCHANGED rejected_leads
    /\ UNCHANGED << companies, signals, contacts, website_jobs, candidate_leads,
                    emails, adminAlertEmail, webhookSecret, process >>

\* ------------------------------------------------------------------------
\* The catch block: fallback write, operator alert, response
\* ------------------------------------------------------------------------

ProcessingError(msg) == "Processing error: " \o msg

\* A fallback write whose failure leaves the handler.
AfterFallbackRethrown(st, ok) ==
    IF ~ok
    THEN Respond(st, 500, ErrorResponse)
    ELSE IF adminAlertEmail = None
    THEN Respond(st, 200, RecoveryResponse)
    ELSE [st EXCEPT !.pc = "alert"]

\* After the fallback write's try/catch, whether it failed or not (ok):
\* sendAdminAlert is called. Without a
\* configured address it returns null at once and the response is sent; with
\* one, the alert mail is handed to the mailer.
AfterFallback(st, ok) ==
    IF adminAlertEmail = None
    THEN Respond(st, 200, RecoveryResponse)
    ELSE [st EXCEPT !.pc = "alert"]

\* The fallback insertRejectedLead(formData, 'processing_error', ...) returns;
\* its failure is logged only.
FallbackInserted(r, ok) ==
    /\ run[r].pc = "fallback"
    /\ ok \/ MayFail
    /\ Fault(ok)
    /\ rejected_leads' =
          IF ok
          THEN rejected_leads \cup
                  {RejectedRow(r, Val(run[r].formData), "processing_error",
                               ProcessingError(Val(run[r].error)))}
          ELSE rejected_leads
    /\ run' = [run EXCEPT ![r] = AfterFallback(@, ok)]
    /\ Called(r, {"sendAdminAlert"})
    /\ UNCHANGED << companies, signals, contacts, website_jobs, candidate_leads,
                    emails, adminAlertEmail, webhookSecret, process >>

\* The mailer returns for the alert; an error is logged only. The recovery
\* response is sent.
AlertSent(r, ok) ==
    /\ run[r].pc = "alert"
    /\ ok \/ MayFail
    /\ Fault(ok)
    /\ emails' = IF ok
                 THEN emails \cup {[kind |-> "alert", id |-> r,
                                    to |-> Val(adminAlertEmail)]}
                 ELSE emails
    /\ run' = [run EXCEPT ![r] = Respond(@, 200, RecoveryResponse)]
    /\ UNCHANGED << calls, tables, adminAlertEmail, webhookSecret, process >>

\* ------------------------------------------------------------------------
\* Specification
\* ------------------------------------------------------------------------

\* The steps of request r, whatever it is and whatever fails.
RunStep(r) ==
    \/ \E body \in Bodies : Receive(r, body)
    \/ \E ok \in BOOLEAN : FastRejectInserted(r, ok)
    \/ \E c \in ScoreCompletions : ScoreLeadReturns(r, c)
    \/ RpcFails(r)
    \/ RpcSelectByDomain(r)
    \/ RpcSelectByName(r)
    \/ RpcInsertReturn(r)
    \/ \E ok \in BOOLEAN : SignalInserted(r, ok)
    \/ \E ok \in BOOLEAN : ContactUpserted(r, ok)
    \/ \E c \in JobAdCompletions : JobAdGenerated(r, c)
    \/ \E ok \in BOOLEAN : JobAdRecordInserted(r, ok)
    \/ \E ok \in BOOLEAN : LeadEmailSent(r, ok)
    \/ \E ok \in BOOLEAN : InvalidInserted(r, ok)
    \/ \E ok \in BOOLEAN : CandidateInserted(r, ok)
    \/ \E ok \in BOOLEAN : SpamInserted(r, ok)
    \/ \E ok \in BOOLEAN : FallbackInserted(r, ok)
    \/ \E ok \in BOOLEAN : AlertSent(r, ok)

Next == \E r \in Runs : RunStep(r)

Spec == Init /\ [][Next]_vars

\* The switch of the handler on values scoreLead itself never returns: the
\* tags a stub of scoreLead hands to it.
HandedTags == Classifications \cup {"maybe_lead", ""}

StubbedScore(tag) ==
    [lead_score     |-> 50,
     role_category  |-> "IT",
     classification |-> tag,
     ai_reasoning   |-> "Stubbed"]

\* scoreLead, stubbed, resolves with StubbedScore(tag); the handler routes.
SwitchOn(r, tag) ==
    /\ run[r].pc = "score"
    /\ LET st == [run[r] EXCEPT !.aiScore = Some(StubbedScore(tag))]
           to == Route(tag)
       IN  IF to = "throw"
           THEN /\ run' = [run EXCEPT ![r] = Catch(st, "Unknown classification")]
                /\ Called(r, CatchCalls(st))
           ELSE /\ run' = [run EXCEPT ![r] =
                       IF to = "rpc1" THEN CallFindOrCreate(st)
                       ELSE [st EXCEPT !.pc = to]]
                /\ Called(r, RouteCall(tag))
    /\ UNCHANGED << tables, emails, adminAlertEmail, webhookSecret, process, faults >>

NextSwitch ==
    \/ Next
    \/ \E r \in Runs : \E tag \in HandedTags : SwitchOn(r, tag)

SpecSwitch == Init /\ [][NextSwitch]_vars

\* Runs of the valid_lead path with every external call succeeding, in any
\* interleaving: the leads that meet in the store.
LeadBodies == {BodyTech, BodyTechCaps, BodyTechGroup, BodyGmail}

ValidLeadCompletion == Completion(Some(ScoreText("85", "valid_lead")))

JobAdCompletion ==
    Completion(Some(JobAdText("Junior utvecklare", "https://rookiework.se/jobs/junior")))

LeadStep(r) ==
    \/ \E body \in LeadBodies : Receive(r, body)
    \/ ScoreLeadReturns(r, ValidLeadCompletion)
    \/ RpcSelectByDomain(r)
    \/ RpcSelectByName(r)
    \/ RpcInsertReturn(r)
    \/ SignalInserted(r, TRUE)
    \/ ContactUpserted(r, TRUE)
    \/ JobAdGenerated(r, JobAdCompletion)
    \/ JobAdRecordInserted(r, TRUE)
    \/ LeadEmailSent(r, TRUE)

NextLeads == \E r \in Leads : LeadStep(r)

SpecLeads == Init /\ [][NextLeads]_vars

\* The same runs one after the other: a request is handled only while no
\* other request is in progress.
Quiet(r) == \A q \in Leads \ {r} : run[q].pc \in {"idle", "done"}

SequentialStep(r) ==
    \/ Quiet(r) /\ \E body \in LeadBodies : Receive(r, body)
    \/ Quiet(r) /\ ScoreLeadReturns(r, ValidLeadCompletion)
    \/ Quiet(r) /\ RpcSelectByDomain(r)
    \/ Quiet(r) /\ RpcSelectByName(r)
    \/ Quiet(r) /\ RpcInsertReturn(r)
    \/ Quiet(r) /\ SignalInserted(r, TRUE)
    \/ Quiet(r) /\ ContactUpserted(r, TRUE)
    \/ Quiet(r) /\ JobAdGenerated(r, JobAdCompletion)
    \/ Quiet(r) /\ JobAdRecordInserted(r, TRUE)
    \/ Quiet(r) /\ LeadEmailSent(r, TRUE)

NextSequential == \E r \in Leads : SequentialStep(r)

SpecSequential == Init /\ [][NextSequential]_vars

\* generateJobAd on the outputs the tests of JobAdDataSchema give it: a
\* complete job ad, and the same with one field missing, empty, of another
\* type, or with another URL.
JobAdFields ==
    {"title", "company", "description", "location", "category",
     "external_url", "posted_date"}

ValidJobAd ==
    [title        |-> [str |-> "Frontend Developer"],
     company      |-> [str |-> "Tech Company AB"],
     description  |-> [str |-> "Vi soker en erfaren frontend-utvecklare..."],
     location     |-> [str |-> "Stockholm"],
     category     |-> [str |-> "Software Development"],
     external_url |-> [str |-> "https://company.se/jobs/123"],
     posted_date  |-> [str |-> "2024-01-15"]]

ValidUrls ==
    {"https://company.se/jobs/123", "https://example.com",
     "https://example.com/path", "https://sub.example.com/path?query=1",
     "http://localhost:3000/jobs"}

GivenJobAds ==
    {[obj |-> ValidJobAd], [str |-> "Frontend Developer"]}
        \cup {[obj |-> [k \in JobAdFields \ {f} |-> ValidJobAd[k]]] : f \in JobAdFields}
        \cup {[obj |-> [ValidJobAd EXCEPT ![f] = v]] :
                 f \in JobAdFields, v \in {[str |-> ""], [num |-> 20240115]}}
        \cup {[obj |-> [ValidJobAd EXCEPT !.external_url = [str |-> u]]] :
                 u \in ValidUrls \cup {"not-a-url"}}

\* generateJobAd from JSON.parse on: jsonParsed is x, JobAdDataSchema
\* validates it, and the function returns validated.data or throws.
JobAdParsed(r, x) ==
    /\ run[r].jobAdP = "pending"
    /\ LET ok == JobAdDataSchema(x)
           st == [run[r] EXCEPT
                     !.jsonParsed = Some(x),
                     !.validated  = Some([success |-> ok]),
                     !.jobAdP = IF ok THEN "fulfilled" ELSE "rejected",
                     !.jobAd  = IF ok THEN Some(JobAdData(x)) ELSE None]
       IN  /\ run' = [run EXCEPT ![r] =
                  AllSettles(st, ok, st.contactP,
                      IF ok THEN ""
                      ELSE "Job ad generation failed: Invalid job ad response structure")]
           /\ Called(r, AllSettlesCalls(st, ok, st.contactP))
    /\ UNCHANGED << tables, emails, adminAlertEmail, webhookSecret, process, faults >>

JobAdStep(r) ==
    \/ Receive(r, BodyTech)
    \/ ScoreLeadReturns(r, ValidLeadCompletion)
    \/ RpcSelectByDomain(r)
    \/ RpcSelectByName(r)
    \/ RpcInsertReturn(r)
    \/ SignalInserted(r, TRUE)
    \/ \E ok \in BOOLEAN : ContactUpserted(r, ok)
    \/ \E x \in GivenJobAds : JobAdParsed(r, x)
    \/ JobAdRecordInserted(r, TRUE)
    \/ LeadEmailSent(r, TRUE)
    \/ FallbackInserted(r, TRUE)
    \/ AlertSent(r, TRUE)

NextJobAd == \E r \in Runs : JobAdStep(r)

SpecJobAd == Init /\ [][NextJobAd]_vars

\* The parsing step of scoreLead and generateJobAd on its own: the content
\* of a completion, the fences stripped, the rest handed to JSON.parse.
JsonTexts == {d.text : d \in JsonDocs}

Untagged(text) == Fence \o "\n" \o text \o "\n" \o Fence

Tagged(text) == Fence \o "json\n" \o text \o "\n" \o Fence

TaggedUpper(text) == Fence \o "JSON\n" \o text \o "\n" \o Fence \o "\n"

TaggedInline(text) == Fence \o "json " \o text \o " " \o Fence

GivenContents ==
    JsonTexts
        \cup {Tagged(t) : t \in JsonTexts}
        \cup {TaggedUpper(t) : t \in JsonTexts}
        \cup {TaggedInline(t) : t \in JsonTexts}
        \cup {Untagged(t) : t \in JsonTexts}
        \cup {"Sorry, I cannot help with that."}

InitParse ==
    /\ run \in {[r \in AllRuns |->
                    IF r = 1 THEN [InitRun EXCEPT !.pc = "content", !.content = Some(c)]
                    ELSE InitRun] : c \in GivenContents}
    /\ calls = [r \in AllRuns |-> [op \in Operations |-> 0]]
    /\ companies = {}
    /\ signals = {}
    /\ contacts = {}
    /\ website_jobs = {}
    /\ rejected_leads = {}
    /\ candidate_leads = {}
    /\ emails = {}
    /\ adminAlertEmail = None
    /\ webhookSecret = None
    /\ process = InitProcess
    /\ faults = 0

\* const cleanContent = content.replace(...).replace(...).trim()
StripFences(r) ==
    /\ run[r].pc = "content"
    /\ run' = [run EXCEPT ![r] =
           [@ EXCEPT !.pc = "clean",
                     !.cleanContent = Some(cleanContent(Val(run[r].content)))]]
    /\ UNCHANGED << calls, tables, emails, adminAlertEmail, webhookSecret, process, faults >>

\* const jsonParsed = JSON.parse(cleanContent): the value, or a SyntaxError
\* that leaves the function through its catch block.
ParseJson(r) ==
    /\ run[r].pc = "clean"
    /\ LET v == JSONparse(Val(run[r].cleanContent))
       IN  run' = [run EXCEPT ![r] =
               IF v = None
               THEN [@ EXCEPT !.pc = "rejected",
                              !.error = Some("AI scoring failed: Unexpected token")]
               ELSE [@ EXCEPT !.pc = "parsed", !.jsonParsed = v]]
    /\ UNCHANGED << calls, tables, emails, adminAlertEmail, webhookSecret, process, faults >>

NextParse == \E r \in Runs : StripFences(r) \/ ParseJson(r)

SpecParse == InitParse /\ [][NextParse]_vars

\* ------------------------------------------------------------------------
\* Graceful shutdown (src/src/index.ts)
\* ------------------------------------------------------------------------

\* A handler that exits at once.
immediateShutdown(p) ==
    [p EXCEPT !.signals  = @ + 1,
              !.server   = "closed",
              !.exitCode = Some(0)]

\* gracefulShutdown(signal): server.close(callback) stops the server from
\* accepting connections and registers the callback for its 'close' event
\* (with an error when the server was not open any more); then the forced
\* exit is scheduled with setTimeout.
gracefulShutdown(p) ==
    [p EXCEPT !.signals        = @ + 1,
              !.server         = IF @ = "listening" THEN "closing" ELSE @,
              !.closeCallbacks = Append(@, IF p.server = "listening"
                                           THEN "closed" ELSE "not running"),
              !.timeouts       = @ + 1]

\* The process has not exited.
Alive == process.exitCode = None

\* A request is being handled: its connection is open.
InFlight(r) == run[r].pc \notin {"idle", "done"}

\* process.on('SIGTERM' / 'SIGINT', ...)
SignalReceived ==
    /\ Alive
    /\ process.signals < MaxSignals
    /\ process' = gracefulShutdown(process)
    /\ UNCHANGED << run, calls, tables, emails, adminAlertEmail, webhookSecret, faults >>

\* The server emits 'close' once it accepts no connections and the last
\* connection has ended; the callbacks run in the order they were
\* registered, and the first one exits the process.
ServerClosed ==
    /\ Alive
    /\ process.server = "closing"
    /\ \A r \in Runs : ~InFlight(r)
    /\ process' = [process EXCEPT
                      !.server   = "closed",
                      !.exitCode = IF Head(process.closeCallbacks) = "closed"
                                   THEN Some(0) ELSE Some(1)]
    /\ UNCHANGED << run, calls, tables, emails, adminAlertEmail, webhookSecret, faults >>

\* SHUTDOWN_TIMEOUT_MS after a signal its timer fires: process.exit(1).
TimeoutFired ==
    /\ Alive
    /\ process.timeouts > 0
    /\ process' = [process EXCEPT !.timedOut = TRUE, !.exitCode = Some(1)]
    /\ UNCHANGED << run, calls, tables, emails, adminAlertEmail, webhookSecret, faults >>

\* The requests the process serves while it lives; a server that is closing
\* accepts no new connection.
ServedStep(r) ==
    \/ /\ process.server = "listening"
       /\ \E body \in {BodyTech, BodyGmail} : Receive(r, body)
    \/ ScoreLeadReturns(r, ValidLeadCompletion)
    \/ RpcSelectByDomain(r)
    \/ RpcSelectByName(r)
    \/ RpcInsertReturn(r)
    \/ SignalInserted(r, TRUE)
    \/ ContactUpserted(r, TRUE)
    \/ JobAdGenerated(r, JobAdCompletion)
    \/ JobAdRecordInserted(r, TRUE)
    \/ LeadEmailSent(r, TRUE)

NextShutdown ==
    \/ \E r \in Runs : Alive /\ ServedStep(r)
    \/ SignalReceived
    \/ ServerClosed
    \/ TimeoutFired

SpecShutdown == Init /\ [][NextShutdown]_vars

\* findOrCreateCompany(companyName, domain) called on its own, one call at a
\* time, by any client of the store; domain may be null.
ProcNames == {"Tech Company AB", "tech company ab", "Tech Group"}

ProcDomains == {None, Some("techcompany.se"), Some("techgroup.se")}

InProcedure(r) == run[r].pc \in {"rpc1", "rpc2", "rpc3"}

ProcCall(r, name, domain) ==
    /\ run[r].pc \in {"idle", "returned"}
    /\ calls[r].findOrCreateCompany < MaxCalls
    /\ \A q \in Leads : ~InProcedure(q)
    /\ run' = [run EXCEPT ![r].pc        = "rpc1",
                          ![r].p_name    = Some(name),
                          ![r].p_domain  = domain,
                          ![r].companyId = None]
    /\ Called(r, {"findOrCreateCompany"})
    /\ UNCHANGED << tables, emails, adminAlertEmail, webhookSecret, process, faults >>

\* Third statement and RETURN, to a caller that only wants the id. The new
\* row's id is the next one of the table.
ProcReturn(r) ==
    /\ run[r].pc = "rpc3"
    /\ LET fresh == Cardinality(companies) + 1
           v     == IF run[r].v_company_id = None
                    THEN Some(fresh) ELSE run[r].v_company_id
       IN  /\ companies' =
                 IF run[r].v_company_id = None
                 THEN companies \cup {[id     |-> fresh,
                                       name   |-> Val(run[r].p_name),
                                       domain |-> run[r].p_domain]}
                 ELSE companies
           /\ run' = [run EXCEPT ![r].pc = "returned",
                                 ![r].v_company_id = None,
                                 ![r].companyId = v]
    /\ UNCHANGED << calls, signals, contacts, website_jobs, rejected_leads,
                    candidate_leads, emails, adminAlertEmail, webhookSecret, process, faults >>

ProcStep(r) ==
    \/ \E name \in ProcNames, domain \in ProcDomains : ProcCall(r, name, domain)
    \/ RpcSelectByDomain(r)
    \/ RpcSelectByName(r)
    \/ ProcReturn(r)

NextProc == \E r \in Leads : ProcStep(r)

SpecProc == Init /\ [][NextProc]_vars

\* validateLead and extractDomain applied on their own to a lead whose
\* fields are drawn from the sets below: present or absent, on either side
\* of each threshold, with none, one or several spam indicators.
LeadEmails ==
    {None, Some("not-an-email"), Some("anna@techcompany.se"),
     Some("spam@fake.com"), Some("Erik@Gmail.com"), Some("anna@")}

LeadPhones == {None, Some("123"), Some("+46 70 123 4567")}

LeadCompanies == {None, Some("AB"), Some("Tech Company AB")}

LeadNames == {None, Some("Bo"), Some("Anna Svensson")}

\* 49 and 50 characters.
Message49 == "Vi soker en junior utvecklare till vart team nu.."

Message50 == "Vi soker en junior utvecklare till vart team nu..."

LeadDescriptions ==
    {None, Some("Short"), Some(Message49), Some(Message50), Some(LongMessage),
     Some("Buy now http://spamlink.com Viagra deals!"),
     Some("Great crypto developers wanted for our growing team in Stockholm."),
     Some("See www.techcompany.se for the junior roles we are hiring for now.")}

GivenLeads ==
    {[full_name |-> n, email |-> e, phone |-> p, company_name |-> c,
      needs_description |-> d] :
        n \in LeadNames, e \in LeadEmails, p \in LeadPhones,
        c \in LeadCompanies, d \in LeadDescriptions}

InitValidate ==
    /\ run \in {[r \in AllRuns |->
                    IF r = 1 THEN [InitRun EXCEPT !.pc = "given", !.formData = Some(lead)]
                    ELSE InitRun] : lead \in GivenLeads}
    /\ calls = [r \in AllRuns |-> [op \in Operations |-> 0]]
    /\ companies = {}
    /\ signals = {}
    /\ contacts = {}
    /\ website_jobs = {}
    /\ rejected_leads = {}
    /\ candidate_leads = {}
    /\ emails = {}
    /\ adminAlertEmail = None
    /\ webhookSecret = None
    /\ process = InitProcess
    /\ faults = 0

\* const validatedData = validateLead(formData), called up to MaxCalls
\* times on the same lead.
ApplyValidateLead(r) ==
    /\ run[r].pc \in {"given", "validated"}
    /\ calls[r].validateLead < MaxCalls
    /\ run' = [run EXCEPT ![r] =
           [@ EXCEPT !.pc = "validated",
                     !.validatedData = Some(validateLead(Val(run[r].formData)))]]
    /\ Called(r, {"validateLead"})
    /\ UNCHANGED << tables, emails, adminAlertEmail, webhookSecret, process, faults >>

\* const dataWithDomain = extractDomain(data)
ApplyExtractDomain(r) ==
    /\ run[r].pc = "given"
    /\ run' = [run EXCEPT ![r] =
           [@ EXCEPT !.pc = "extracted",
                     !.dataWithDomain = Some(extractDomain(Val(run[r].formData)))]]
    /\ UNCHANGED << calls, tables, emails, adminAlertEmail, webhookSecret, process, faults >>

NextValidate == \E r \in Runs : ApplyValidateLead(r) \/ ApplyExtractDomain(r)

SpecValidate == InitValidate /\ [][NextValidate]_vars

\* validateLead on leads at the boundaries of its checks: each field once
\* just failing and once just passing.
GoodEmails == {"a@b.se", "anna.svensson@tech-company.co.uk"}

BadEmails ==
    {"invalid-email", "a@b", "@b.se", "a@.se", "a@b.", "a b@c.se", "a@b.se ",
     "a@@b.se"}

GoodPhones == {"12345678", "+46 70 123 4567", "(08) 123-45", "tel 070-1234567"}

BadPhones == {"123", "1234567", "0701.234.567", "1234 abc 5678"}

BoundaryLeads ==
    {[full_name |-> Some(n), email |-> Some(e), phone |-> Some(p),
      company_name |-> Some(c), needs_description |-> Some(d)] :
        n \in {"Bo", "Bob"}, e \in GoodEmails \cup BadEmails,
        p \in GoodPhones \cup BadPhones, c \in {"AB", "ABB"},
        d \in {"Short", Message49, Message50}}

InitBoundary ==
    /\ run \in {[r \in AllRuns |->
                    IF r = 1 THEN [InitRun EXCEPT !.pc = "given", !.formData = Some(lead)]
                    ELSE InitRun] : lead \in BoundaryLeads}
    /\ calls = [r \in AllRuns |-> [op \in Operations |-> 0]]
    /\ companies = {}
    /\ signals = {}
    /\ contacts = {}
    /\ website_jobs = {}
    /\ rejected_leads = {}
    /\ candidate_leads = {}
    /\ emails = {}
    /\ adminAlertEmail = None
    /\ webhookSecret = None
    /\ process = InitProcess
    /\ faults = 0

NextBoundary == \E r \in Runs : ApplyValidateLead(r)

SpecBoundary == InitBoundary /\ [][NextBoundary]_vars

\* Steps 2 to 4 of the handler on the leads given to the validator: after
\* validateLead, the gate either starts the fast-reject write or scoreLead.
ApplyGate(r) ==
    /\ run[r].pc = "validated"
    /\ IF ~passesValidation(Val(run[r].validatedData))
       THEN /\ run' = [run EXCEPT ![r].pc = "fastreject"]
            /\ Called(r, {"insertRejectedLead"})
       ELSE /\ run' = [run EXCEPT ![r].pc = "score"]
            /\ Called(r, {"scoreLead"})
    /\ UNCHANGED << tables, emails, adminAlertEmail, webhookSecret, process, faults >>

NextGateway == \E r \in Runs : ApplyValidateLead(r) \/ ApplyGate(r)

SpecGateway == InitValidate /\ [][NextGateway]_vars

\* extractDomain on leads whose email is at a consumer mail provider: the
\* company names of the tests, written in several ways.
GuessEmails == {Some("user@gmail.com"), Some("user@hotmail.se"), Some("User@Outlook.com")}

\* A company name in lower and in upper case.
BaseNames ==
    {[name |-> "Nordea",       upper |-> "NORDEA"],
     [name |-> "Tech Company", upper |-> "TECH COMPANY"],
     [name |-> "Volvo",        upper |-> "VOLVO"],
     [name |-> "Acme",         upper |-> "ACME"]}

\* Spellings of one company name that end with the name or with a legal
\* suffix: other letter case, other blanks, with and without the suffix.
SuffixLast(b) ==
    {b.name, b.upper,
     b.name \o " AB", b.name \o " ab", b.name \o "  Ab", b.upper \o " AB",
     b.name \o " Aktiebolag", b.name \o " AKTIEBOLAG", b.name \o "\taktiebolag",
     " " \o b.name \o " AB"}

\* Spellings with a blank after the legal suffix.
BlankLast(b) == {b.name \o " AB ", b.name \o " Aktiebolag "}

GuessLeads ==
    {[full_name |-> Some("Anna Svensson"), email |-> e, phone |-> None,
      company_name |-> Some(c), needs_description |-> None] :
        e \in GuessEmails,
        c \in UNION {SuffixLast(b) \cup BlankLast(b) : b \in BaseNames}}

InitGuess ==
    /\ run \in {[r \in AllRuns |->
                    IF r = 1 THEN [InitRun EXCEPT !.pc = "given", !.formData = Some(lead)]
                    ELSE InitRun] : lead \in GuessLeads}
    /\ calls = [r \in AllRuns |-> [op \in Operations |-> 0]]
    /\ companies = {}
    /\ signals = {}
    /\ contacts = {}
    /\ website_jobs = {}
    /\ rejected_leads = {}
    /\ candidate_leads = {}
    /\ emails = {}
    /\ adminAlertEmail = None
    /\ webhookSecret = None
    /\ process = InitProcess
    /\ faults = 0

NextGuess == \E r \in Runs : ApplyExtractDomain(r)

SpecGuess == InitGuess /\ [][NextGuess]_vars

\* ------------------------------------------------------------------------
\* Webhook authentication (src/src/middleware/webhookAuth.ts, src/src/index.ts)
\* ------------------------------------------------------------------------

\* Length in bytes of a SHA-256 digest.
DigestBytes == 32

\* crypto.createHmac('sha256', key).update(msg).digest('hex'), decoded: the
\* digest names its key and its message, so that two digests are equal
\* exactly when both agree.
Hmac(key, msg) == [key |-> key, msg |-> msg, bytes |-> DigestBytes]

\* A header value that decodes to fewer bytes than a digest has.
ShortSignature == [key |-> "", msg |-> None, bytes |-> 2]

WebhookSecret == "whsec-rookie"

\* A key the sender guessed.
OtherSecret == "whsec-guess"

Unauthorized(message) ==
    [status |-> 401,
     body   |-> [success |-> FALSE, error |-> "Unauthorized", message |-> message]]

\* verifyWebhookSignature(req, res, next): whether next() is called, and the
\* response sent if any. signature is the x-webhook-signature header, None
\* when absent or empty; rawBody is req.rawBody.
verifyWebhookSignature(secret, signature, rawBody) ==
    IF ~IsSome(secret)
    THEN [next |-> TRUE, response |-> None]
    ELSE IF ~IsSome(signature)
    THEN [next |-> FALSE, response |-> Some(Unauthorized("Missing webhook signature"))]
    ELSE IF ~IsSome(rawBody)
    THEN [next |-> FALSE,
          response |-> Some([status |-> 500,
                             body |-> [success |-> FALSE,
                                       error   |-> "Internal Server Error",
                                       message |-> "Unable to verify signature"]])]
    ELSE LET expectedSignature == Hmac(Val(secret), Val(rawBody))
         IN  IF Val(signature).bytes # expectedSignature.bytes
             THEN [next |-> FALSE,
                   response |-> Some(Unauthorized("Invalid webhook signature"))]
             ELSE IF Val(signature) # expectedSignature
             THEN [next |-> FALSE,
                   response |-> Some(Unauthorized("Invalid webhook signature"))]
             ELSE [next |-> TRUE, response |-> None]

\* The signed bodies of the model.
SignedBodies == {BodyTech, BodySpamLow, BodyGmail, BodyNull}

\* The x-webhook-signature headers a request may carry: none, the digest of
\* a body under the secret or under a guessed key, a truncated value.
Signatures ==
    {None, Some(ShortSignature)}
        \cup {Some(Hmac(k, b)) : k \in {WebhookSecret, OtherSecret}, b \in SignedBodies}

\* The gate applied on its own to a request.
InitGate ==
    /\ run \in {[r \in AllRuns |->
                    IF r = 1 THEN [InitRun EXCEPT !.pc = "gate", !.signature = sig,
                                                  !.rawBody = raw]
                    ELSE InitRun] :
                 sig \in Signatures, raw \in {None} \cup {Some(b) : b \in SignedBodies}}
    /\ calls = [r \in AllRuns |-> [op \in Operations |-> 0]]
    /\ companies = {}
    /\ signals = {}
    /\ contacts = {}
    /\ website_jobs = {}
    /\ rejected_leads = {}
    /\ candidate_leads = {}
    /\ emails = {}
    /\ adminAlertEmail = None
    /\ webhookSecret \in {None, Some(WebhookSecret)}
    /\ process = InitProcess
    /\ faults = 0

\* The gate runs: it calls next() or sends its response.
VerifyWebhookSignature(r) ==
    /\ run[r].pc = "gate"
    /\ LET g == verifyWebhookSignature(webhookSecret, run[r].signature, run[r].rawBody)
       IN  run' = [run EXCEPT ![r] =
                     [@ EXCEPT !.pc = IF g.next THEN "next" ELSE "done",
                               !.response = g.response]]
    /\ UNCHANGED << calls, tables, emails, adminAlertEmail, webhookSecret, process, faults >>

NextGate == \E r \in Runs : VerifyWebhookSignature(r)

SpecGate == InitGate /\ [][NextGate]_vars

\* The application as index.ts mounts it: app.use('/api', webhookRouter)
\* hands a POST /api/webhook to the handler; the request carries its
\* x-webhook-signature header, and a secret may be configured.
InitApp ==
    /\ run \in {[r \in AllRuns |->
                    IF r \in Runs THEN [InitRun EXCEPT !.signature = sig] ELSE InitRun] :
                 sig \in Signatures}
    /\ calls = [r \in AllRuns |-> [op \in Operations |-> 0]]
    /\ companies = {}
    /\ signals = {}
    /\ contacts = {}
    /\ website_jobs = {}
    /\ rejected_leads = {}
    /\ candidate_leads = {}
    /\ emails = {}
    /\ adminAlertEmail \in {None, Some("admin@rookiework.se")}
    /\ webhookSecret \in {None, Some(WebhookSecret)}
    /\ process = InitProcess
    /\ faults = 0

SpecApp == InitApp /\ [][Next]_vars

\* AIScoreResultSchema applied on its own to the value JSON.parse returned:
\* every field present or absent, of the right type or not, inside or
\* outside its range.
NoFields == [k \in {} |-> k]

Field(k, v) == IF v = None THEN NoFields ELSE k :> Val(v)

GivenScores ==
    {None, Some([num |-> 0]), Some([num |-> 1]), Some([num |-> 50]),
     Some([num |-> 100]), Some([num |-> 101]), Some([str |-> "85"])}

GivenTags ==
    {None, Some([num |-> 1]), Some([str |-> "maybe_lead"])}
    \cup {Some([str |-> c]) : c \in Classifications}

GivenRequirements ==
    {None, Some([str |-> "React"]), Some([arr |-> << >>]),
     Some([arr |-> << [str |-> "React"] >>]),
     Some([arr |-> << [str |-> "React"], [num |-> 3] >>])}

GivenReasonings == {None, Some([str |-> ""]), Some([str |-> "Assessed"])}

GivenRoles == {None, Some([str |-> "IT"])}

GivenOutputs ==
    {[obj |-> Field("lead_score", s) @@ Field("role_category", ro)
              @@ Field("classification", t) @@ Field("key_requirements", q)
              @@ Field("ai_reasoning", a)] :
        s \in GivenScores, ro \in GivenRoles, t \in GivenTags,
        q \in GivenRequirements, a \in GivenReasonings}

InitSchema ==
    /\ run \in {[r \in AllRuns |->
                    IF r = 1 THEN [InitRun EXCEPT !.pc = "parsed", !.jsonParsed = Some(x)]
                    ELSE InitRun] : x \in GivenOutputs}
    /\ calls = [r \in AllRuns |-> [op \in Operations |-> 0]]
    /\ companies = {}
    /\ signals = {}
    /\ contacts = {}
    /\ website_jobs = {}
    /\ rejected_leads = {}
    /\ candidate_leads = {}
    /\ emails = {}
    /\ adminAlertEmail = None
    /\ webhookSecret = None
    /\ process = InitProcess
    /\ faults = 0

\* const validated = AIScoreResultSchema.safeParse(jsonParsed)
SafeParse(r) ==
    /\ run[r].pc = "parsed"
    /\ run' = [run EXCEPT ![r] =
           [@ EXCEPT !.pc = "checked",
                     !.validated = Some([success |->
                         AIScoreResultSchema(Val(run[r].jsonParsed))])]]
    /\ UNCHANGED << calls, tables, emails, adminAlertEmail, webhookSecret, process, faults >>

\* if (!validated.success) throw ...; return validated.data
ReturnOrThrow(r) ==
    /\ run[r].pc = "checked"
    /\ IF Val(run[r].validated).success
       THEN run' = [run EXCEPT ![r] =
                [@ EXCEPT !.pc = "accepted",
                          !.aiScore = Some(AIScoreData(Val(run[r].jsonParsed)))]]
       ELSE run' = [run EXCEPT ![r] =
                [@ EXCEPT !.pc = "rejected",
                          !.error = Some("AI scoring failed: Invalid AI response structure")]]
    /\ UNCHANGED << calls, tables, emails, adminAlertEmail, webhookSecret, process, faults >>

NextSchema == \E r \in Runs : SafeParse(r) \/ ReturnOrThrow(r)

SpecSchema == InitSchema /\ [][NextSchema]_vars

\* ------------------------------------------------------------------------
\* Properties
\* ------------------------------------------------------------------------

Done(r) == run[r].pc = "done"

Entered(r) == IsSome(run[r].formData)

ResponseOf(r) == Val(run[r].response)

\* Request r was answered from the catch block.
Recovered(r) == Done(r) /\ IsSome(run[r].error)

RowsOf(table, r) == {row \in table : row.id = r}

\* The lead of request r fails the validation gate.
FastRejected(r) ==
    /\ Entered(r)
    /\ LET v == validatedForms[Val(run[r].formData)]
       IN  v.validation_score <= 30 \/ v.is_likely_spam

\* C1, as stated: every lead that fails the validation gate makes no
\* completion call, is written to rejected_leads and is answered with the
\* classification "spam".
C1_AsStated ==
    \A r \in Runs :
        FastRejected(r) =>
            /\ calls[r].scoreLead = 0
            /\ calls[r].generateJobAd = 0
            /\ Done(r) => /\ ResponseOf(r).body.classification = Some("spam")
                          /\ RowsOf(rejected_leads, r) # {}

\* C1, amended: a lead that fails the validation gate never makes a
\* completion call and starts with one write to rejected_leads; when that
\* write succeeds the row is stored and the answer carries the classification
\* "spam"; when it fails the request is answered from the catch block with
\* the generic response after a second, fallback write was attempted.
C1_FastReject ==
    \A r \in Runs :
        FastRejected(r) =>
            /\ calls[r].scoreLead = 0
            /\ calls[r].generateJobAd = 0
            /\ calls[r].insertRejectedLead >= 1
            /\ Done(r) /\ ~Recovered(r) =>
                  /\ ResponseOf(r).status = 200
                  /\ ResponseOf(r).body.classification = Some("spam")
                  /\ calls[r].insertRejectedLead = 1
                  /\ calls[r].fallbackInsert = 0
                  /\ Cardinality(RowsOf(rejected_leads, r)) = 1
                  /\ \A row \in RowsOf(rejected_leads, r) :
                        /\ row.email = Val(run[r].formData).email
                        /\ row.classification # "processing_error"
            /\ Recovered(r) =>
                  /\ ResponseOf(r).body = RecoveryResponse
                  /\ calls[r].insertRejectedLead = 1
                  /\ calls[r].fallbackInsert = 1

\* A lead with is_likely_spam and a score above 30 was fast-rejected and
\* answered "spam".
C1_Witness ==
    \E r \in Runs :
        /\ FastRejected(r)
        /\ validatedForms[Val(run[r].formData)].validation_score > 30
        /\ Done(r)
        /\ ResponseOf(r).body.classification = Some("spam")
        /\ RowsOf(rejected_leads, r) # {}

\* Request r entered the catch block.
Faulted(r) == IsSome(run[r].error)

RecoveryAnswer == [status |-> 200, body |-> RecoveryResponse]

AlertsOf(r) == {e \in emails : e.kind = "alert" /\ e.id = r}

Recorded(r) ==
    RowsOf(rejected_leads, r) \cup RowsOf(candidate_leads, r)
        \cup RowsOf(signals, r) # {}

\* C3, as stated: by the time the response is sent, every submission that
\* entered the pipeline is recorded in the store and, if the run faulted, an
\* operator alert was sent.
C3_NoSubmissionLost ==
    \A r \in Runs :
        Entered(r) /\ Done(r) =>
            /\ Recorded(r)
            /\ Faulted(r) => AlertsOf(r) # {}

Passed(r) ==
    /\ Entered(r)
    /\ LET v == validatedForms[Val(run[r].formData)]
       IN  v.validation_score > 30 /\ ~v.is_likely_spam

\* C5: a lead that passes the validation gate has exactly one scoreLead call
\* from the moment the gate is passed to the end of the run, also when the
\* call fails; a classification once returned is never replaced.
C5_OneClassification ==
    [][\A r \in Runs :
          /\ Passed(r)' => calls'[r].scoreLead = 1
          /\ IsSome(run[r].aiScore) => run'[r].aiScore = run[r].aiScore]_vars

\* The classification call failed and the run ended without a second call.
C5_Witness ==
    \E r \in Runs :
        /\ Passed(r)
        /\ Recovered(r)
        /\ run[r].aiScore = None
        /\ calls[r].scoreLead = 1

\* Request r was answered from a branch of the switch.
Classified(r) == Done(r) /\ ~Faulted(r) /\ IsSome(run[r].aiScore)

\* C6: a run answered from a branch of the switch carries the classifier's
\* tag in its response and wrote the sink of that tag only: invalid_lead and
\* likely_spam one rejected_leads row with the tag and the AI reasoning,
\* likely_candidate one candidate_leads row, valid_lead one website_jobs row.
C6_Dispatch ==
    \A r \in Runs :
        Classified(r) =>
            LET ai  == Val(run[r].aiScore)
                tag == ai.classification
            IN  /\ ResponseOf(r).body.classification = Some(tag)
                /\ IF tag \in {"invalid_lead", "likely_spam"}
                   THEN \E row \in rejected_leads :
                           /\ RowsOf(rejected_leads, r) = {row}
                           /\ row.classification = tag
                           /\ row.ai_reasoning = ai.ai_reasoning
                   ELSE RowsOf(rejected_leads, r) = {}
                /\ Cardinality(RowsOf(candidate_leads, r)) =
                      IF tag = "likely_candidate" THEN 1 ELSE 0
                /\ Cardinality(RowsOf(website_jobs, r)) =
                      IF tag = "valid_lead" THEN 1 ELSE 0

\* A lead classified likely_spam was answered with that tag.
C6_Witness ==
    \E r \in Runs :
        /\ Classified(r)
        /\ Val(run[r].aiScore).classification = "likely_spam"
        /\ ResponseOf(r).body.classification = Some("likely_spam")
        /\ RowsOf(rejected_leads, r) # {}

\* C7: in the catch block, when the fallback write returns, failed or not,
\* sendAdminAlert is called and the error stays the one that was caught;
\* when the alert returns, failed or not, the recovery response is sent.
C7_RecoveryIndependent ==
    [][\A r \in Runs :
          /\ run[r].pc = "fallback" /\ run'[r].pc # "fallback" =>
                /\ calls'[r].sendAdminAlert = calls[r].sendAdminAlert + 1
                /\ run'[r].error = run[r].error
                /\ IF adminAlertEmail = None
                   THEN /\ run'[r].pc = "done"
                        /\ run'[r].response = Some(RecoveryAnswer)
                   ELSE run'[r].pc = "alert"
          /\ run[r].pc = "alert" /\ run'[r].pc # "alert" =>
                /\ run'[r].pc = "done"
                /\ run'[r].error = run[r].error
                /\ run'[r].response = Some(RecoveryAnswer)]_vars

\* The fallback write failed, the alert was attempted and failed, and the
\* caller was answered.
C7_Witness ==
    \E r \in Runs :
        /\ Recovered(r)
        /\ adminAlertEmail # None
        /\ RowsOf(rejected_leads, r) = {}
        /\ calls[r].sendAdminAlert = 1
        /\ AlertsOf(r) = {}
        /\ run[r].response = Some(RecoveryAnswer)

\* A body the request schema has to refuse: null, or name, email or company
\* missing or empty, or an email that is no address.
Malformed(body) ==
    \/ body = None
    \/ /\ body # None
       /\ \/ OrEmpty(Val(body).name) = ""
          \/ OrEmpty(Val(body).company) = ""
          \/ OrEmpty(Val(body).email) = ""
          \/ ~EmailPattern(OrEmpty(Val(body).email))

MalformedBodies == {b \in Bodies : Malformed(b)}

\* C8: a request with a malformed body is answered 400 with success = false
\* in the step that receives it: no operation is called for it, nothing is
\* written or mailed for it, and the catch block is not entered.
C8_InputRejection ==
    \A r \in Runs :
        run[r].pc # "idle" /\ run[r].body \in MalformedBodies =>
            /\ Done(r)
            /\ ResponseOf(r).status = 400
            /\ ~ResponseOf(r).body.success
            /\ \A op \in Operations : calls[r][op] = 0
            /\ ~Entered(r)
            /\ ~Faulted(r)
            /\ ~Recorded(r)
            /\ RowsOf(website_jobs, r) = {}
            /\ {e \in emails : e.id = r} = {}

\* A body with an empty company was refused.
C8_Witness ==
    \E r \in Runs :
        /\ Done(r)
        /\ run[r].body = BodyEmptyCompany
        /\ ResponseOf(r).status = 400

\* The rows of table that find-or-create has to resolve (name, domain) to, in
\* the order domain, then name; empty when a row has to be created.
ResolvesTo(table, name, domain) ==
    LET byDomain == {c \in table : domain # None /\ c.domain = domain}
        byName   == {c \in table : ToLowerCase(c.name) = ToLowerCase(name)}
    IN  IF byDomain # {} THEN byDomain ELSE byName

\* Requests r1 and r2 are leads of one mail domain whose company names differ
\* in capitalization only, both resolved.
SameCompanyLeads(r1, r2) ==
    /\ IsSome(run[r1].companyId)
    /\ IsSome(run[r2].companyId)
    /\ run[r1].p_domain = run[r2].p_domain
    /\ run[r1].p_name # run[r2].p_name
    /\ ToLowerCase(Val(run[r1].p_name)) = ToLowerCase(Val(run[r2].p_name))

\* C9: with requests handled one after the other, find_or_create_company
\* returns a row with the given domain if there is one, else a row with the
\* same name ignoring case if there is one, else the row it creates; two
\* leads of one domain whose names differ in capitalization only get the
\* same company id, and that is one row.
C9_FindOrCreate ==
    [][/\ \A r \in Leads :
            run[r].pc = "rpc3" /\ run'[r].pc = "signal" =>
                LET found == ResolvesTo(companies, Val(run[r].p_name), run[r].p_domain)
                    id    == Val(run'[r].companyId)
                IN  IF found # {}
                    THEN /\ id \in {c.id : c \in found}
                         /\ companies' = companies
                    ELSE /\ id \notin {c.id : c \in companies}
                         /\ companies' = companies \cup
                               {[id |-> id, name |-> Val(run[r].p_name),
                                 domain |-> run[r].p_domain]}
       /\ \A r1, r2 \in Leads :
            SameCompanyLeads(r1, r2)' =>
                /\ run'[r1].companyId = run'[r2].companyId
                /\ Cardinality({c \in companies' :
                                  c.id = Val(run'[r1].companyId)}) = 1
                /\ Cardinality({c \in companies' :
                                  c.domain = run'[r1].p_domain}) <= 1]_vars

\* Two leads of one domain, company names in different capitalization, were
\* handled one after the other and share the only company row.
C9_Witness ==
    \E r1, r2 \in Leads :
        /\ r1 # r2
        /\ Done(r1)
        /\ Done(r2)
        /\ SameCompanyLeads(r1, r2)
        /\ run[r1].companyId = run[r2].companyId
        /\ Cardinality(companies) = 1

\* C10, as stated: whatever the interleaving of the runs, no two rows of
\* companies have the same non-null domain, and a run calls
\* findOrCreateCompany at most once.
C10_OneRowPerDomain ==
    /\ \A c1, c2 \in companies :
          c1.domain # None /\ c1.domain = c2.domain => c1 = c2
    /\ \A r \in Leads : calls[r].findOrCreateCompany <= 1

\* Caller r holds the id a finished call returned.
Returned(r) == run[r].pc = "returned"

\* The call of r returns in this step.
Returns(r) == run[r].pc = "rpc3" /\ run'[r].pc = "returned"

RowsWithDomain(domain) == {c \in companies : domain # None /\ c.domain = domain}

\* The rows without a domain whose name is name in some capitalization.
NamedOnly(name) ==
    {c \in companies : c.domain = None /\ ToLowerCase(c.name) = ToLowerCase(name)}

\* C11, first part: a call with a known domain no row has yet and the name of
\* a row without a domain returns that row and creates none.
C11_MergeByName ==
    [][\A r \in Leads :
          /\ Returns(r)
          /\ run[r].p_domain # None
          /\ RowsWithDomain(run[r].p_domain) = {}
          /\ NamedOnly(Val(run[r].p_name)) # {}
          => /\ companies' = companies
             /\ \E c \in companies :
                   /\ ToLowerCase(c.name) = ToLowerCase(Val(run[r].p_name))
                   /\ run'[r].companyId = Some(c.id)]_vars

\* C11, last part: a call with the domain of an existing row returns a row
\* with that domain, whatever the name.
C11_DomainWins ==
    [][\A r \in Leads :
          Returns(r) /\ RowsWithDomain(run[r].p_domain) # {}
          => /\ companies' = companies
             /\ Val(run'[r].companyId) \in
                   {c.id : c \in RowsWithDomain(run[r].p_domain)}]_vars

\* Caller r1 was given, for a known domain, a row that has no domain: the
\* company was merged by its name.
MergedByName(r1) ==
    /\ Returned(r1)
    /\ run[r1].p_domain # None
    /\ \E c \in companies : c.id = Val(run[r1].companyId) /\ c.domain = None

\* C11, as stated: calls made one at a time. A call with a known domain and
\* the name of a row without a domain returns that row and creates none; a
\* call with the same domain and any name then returns the same company; a
\* call with the domain of an existing row returns that row.
C11_Merge ==
    [][/\ \A r \in Leads :
            /\ Returns(r)
            /\ run[r].p_domain # None
            /\ RowsWithDomain(run[r].p_domain) = {}
            /\ NamedOnly(Val(run[r].p_name)) # {}
            => /\ companies' = companies
               /\ \E c \in companies :
                     /\ ToLowerCase(c.name) = ToLowerCase(Val(run[r].p_name))
                     /\ run'[r].companyId = Some(c.id)
       /\ \A r1, r2 \in Leads :
            /\ MergedByName(r1)'
            /\ Returned(r2)'
            /\ run'[r2].p_domain = run'[r1].p_domain
            => run'[r2].companyId = run'[r1].companyId
       /\ \A r \in Leads :
            Returns(r) /\ RowsWithDomain(run[r].p_domain) # {}
            => Val(run'[r].companyId) \in
                  {c.id : c \in RowsWithDomain(run[r].p_domain)}]_vars

\* Spellings of one mail address: letter case and surrounding blanks.
AddressSpellings ==
    {"anna@techcompany.se", "Anna@TechCompany.se", "ANNA@TECHCOMPANY.SE",
     " anna@techcompany.se", "Anna@TechCompany.se  ", " anna@TECHCOMPANY.se "}

\* The contact email of every address the model knows, lower-cased and
\* trimmed.
NormEmail ==
    [e \in AddressSpellings \cup
            {Val(Val(b).email) : b \in {x \in ParsedBodies : IsSome(Val(x).email)}}
        |-> Trim(ToLowerCase(e))]

\* prepareContactData gives every spelling the same contact email.
SpellingsAlike ==
    \A e \in AddressSpellings :
        prepareContactData([full_name |-> None, email |-> Some(e), phone |-> None],
                            [company_id |-> 1]).email = "anna@techcompany.se"

\* The upsert of request r succeeded.
Upserted(r) == run[r].contactP = "fulfilled"

\* The contact rows of the company and the address of request r.
ContactsOf(table, r) ==
    {c \in table : /\ c.company_id = Val(run[r].companyId)
                   /\ c.email \in DOMAIN NormEmail
                   /\ NormEmail[c.email] = NormEmail[Val(Val(run[r].formData).email)]}

\* C12: in any interleaving of valid-lead runs, a successful upsert leaves
\* exactly one contact row for the company and the address of its run,
\* carrying the fields of that write; that stays one row whoever writes
\* later; addresses that differ in letter case or surrounding blanks are one
\* contact email.
C12_ContactUpsert ==
    [][/\ \A r \in Leads :
            run[r].contactP = "pending" /\ Upserted(r)' =>
                ContactsOf(contacts', r) =
                    {[company_id |-> Val(run[r].companyId),
                      full_name  |-> Val(run[r].formData).full_name,
                      email      |-> NormEmail[Val(Val(run[r].formData).email)],
                      phone      |-> Val(run[r].formData).phone]}
       /\ \A r \in Leads :
            Upserted(r)' => Cardinality(ContactsOf(contacts', r)) = 1
       /\ SpellingsAlike]_vars

\* Two runs with the address in different letter case wrote the contact of
\* one company, and there is one contact row.
C12_Witness ==
    \E r1, r2 \in Leads :
        /\ Upserted(r1)
        /\ Upserted(r2)
        /\ run[r1].companyId = run[r2].companyId
        /\ Val(run[r1].formData).email # Val(run[r2].formData).email
        /\ ContactsOf(contacts, r1) = ContactsOf(contacts, r2)
        /\ Cardinality(contacts) = 1

\* C13: a response with classification valid_lead carries a job_ad_title,
\* and website_jobs holds a row of the same run with that title and with the
\* company id the run resolved.
C13_RoundTrip ==
    \A r \in Runs :
        Done(r) /\ ResponseOf(r).body.classification = Some("valid_lead") =>
            /\ ResponseOf(r).body.job_ad_title # None
            /\ run[r].companyId # None
            /\ \E row \in RowsOf(website_jobs, r) :
                  /\ Some(row.title) = ResponseOf(r).body.job_ad_title
                  /\ Some(row.company_id) = run[r].companyId

\* A valid lead was answered with the title of its stored job ad.
C13_Witness ==
    \E r \in Runs :
        /\ Done(r)
        /\ ResponseOf(r).body.classification = Some("valid_lead")
        /\ ResponseOf(r).body.job_ad_title = Some("Junior utvecklare")
        /\ \E row \in RowsOf(website_jobs, r) : row.title = "Junior utvecklare"

ConfirmationsOf(r) == {e \in emails : e.kind = "confirmation" /\ e.id = r}

\* C14: on the valid_lead path every step starts after the one before it
\* succeeded: the domain is resolved before findOrCreateCompany is called,
\* createSignal is called with the company id, the contact upsert and the
\* job ad generation start together after the signal row is written, the job
\* ad row is written after both succeeded, the confirmation is sent after
\* the job ad row is written, and the valid_lead response follows the
\* confirmation.
C14_Ordering ==
    \A r \in Runs :
        /\ calls[r].findOrCreateCompany > 0 =>
              /\ run[r].p_name # None
              /\ IsSome(run[r].aiScore)
        /\ calls[r].createSignal > 0 => run[r].companyId # None
        /\ RowsOf(signals, r) # {} => run[r].companyId # None
        /\ calls[r].upsertContact = calls[r].generateJobAd
        /\ calls[r].upsertContact > 0 => RowsOf(signals, r) # {}
        /\ run[r].contactP # "none" => calls[r].upsertContact = 1
        /\ run[r].contactP = "fulfilled" => run[r].companyId # None
        /\ calls[r].createJobAdRecord > 0 =>
              run[r].contactP = "fulfilled" /\ run[r].jobAdP = "fulfilled"
        /\ run[r].pc \in {"jobrec", "email"} =>
              run[r].contactP = "fulfilled" /\ run[r].jobAdP = "fulfilled"
        /\ RowsOf(website_jobs, r) # {} => calls[r].createJobAdRecord = 1
        /\ calls[r].sendEmailToLead > 0 => RowsOf(website_jobs, r) # {}
        /\ ConfirmationsOf(r) # {} => RowsOf(website_jobs, r) # {}
        /\ Done(r) /\ ResponseOf(r).body.classification = Some("valid_lead") =>
              ConfirmationsOf(r) # {}
        /\ \A op \in {"findOrCreateCompany", "createSignal", "upsertContact",
                       "generateJobAd", "createJobAdRecord", "sendEmailToLead"} :
              calls[r][op] <= 1

\* A run went through every step of the valid_lead path.
C14_Witness ==
    \E r \in Runs :
        /\ Done(r)
        /\ ResponseOf(r).body.classification = Some("valid_lead")
        /\ RowsOf(signals, r) # {}
        /\ run[r].contactP = "fulfilled"
        /\ RowsOf(website_jobs, r) # {}
        /\ ConfirmationsOf(r) # {}

\* Request r is off the valid_lead path: fast-rejected, or classified as
\* something else than valid_lead.
OffLeadPath(r) ==
    \/ FastRejected(r)
    \/ /\ IsSome(run[r].aiScore)
       /\ Val(run[r].aiScore).classification # "valid_lead"

LeadOperations ==
    {"findOrCreateCompany", "createSignal", "upsertContact", "generateJobAd",
     "createJobAdRecord", "sendEmailToLead"}

Validated(r) == run[r].pc = "validated"

\* The fitness checks a lead passes.
FitnessChecks(lead) ==
    {c \in {"email", "phone", "company", "description", "name"} :
        \/ c = "email"       /\ EmailPattern(OrEmpty(lead.email))
        \/ c = "phone"       /\ PhonePattern(OrEmpty(lead.phone))
        \/ c = "company"     /\ Len(OrEmpty(lead.company_name)) > 2
        \/ c = "description" /\ Len(OrEmpty(lead.needs_description)) >= 50
        \/ c = "name"        /\ Len(OrEmpty(lead.full_name)) > 2}

\* C16: a submission that passes every fitness check (well-formed email,
\* phone, company name longer than 2, need description of at least 50
\* characters, contact name longer than 2) gets validation_score = 100 and
\* proceeds to classification.
C16_CompleteLeadScores100 ==
    \A r \in Runs :
        (Validated(r) /\ Cardinality(FitnessChecks(Val(run[r].formData))) = 5)
        => /\ Val(run[r].validatedData).validation_score = 100
           /\ passesValidation(Val(run[r].validatedData))

\* C17: validateLead returns for every lead, fields missing or not, a
\* validation_score that is an integer in 0..100 and the nearest integer to
\* passed/6 * 100, passed being the number of fitness checks that hold; the
\* breakdown reports those checks; and a second call on the same fields
\* returns the same score, spam flag and breakdown.
ScoreAsSpecified(r) ==
    LET lead   == Val(run[r].formData)
        v      == Val(run[r].validatedData)
        passed == Cardinality(FitnessChecks(lead))
        d      == v.validation_details
    IN  /\ v.validation_score \in 0..100
        /\ 6 * v.validation_score - 100 * passed \in -3..3
        /\ d.email_valid = ("email" \in FitnessChecks(lead))
        /\ d.phone_valid = ("phone" \in FitnessChecks(lead))
        /\ d.company_filled = ("company" \in FitnessChecks(lead))
        /\ d.needs_adequate = ("description" \in FitnessChecks(lead))
        /\ d.contact_name_filled = ("name" \in FitnessChecks(lead))
        /\ d.needs_description_length = Len(OrEmpty(lead.needs_description))

SecondCallAgrees(r) ==
    (Validated(r) /\ run'[r].pc = "validated")
    => /\ run'[r].formData = run[r].formData
       /\ run'[r].validatedData = run[r].validatedData

IndicatorsOf(lead) ==
    {i \in {"keyword", "offer", "url", "email"} :
        \/ i = "keyword" /\ MatchesAnyI(OrEmpty(lead.needs_description),
                                {"viagra", "cialis", "casino", "crypto", "bitcoin"})
        \/ i = "offer"   /\ MatchesAnyI(OrEmpty(lead.needs_description),
                                {"click here", "buy now", "limited offer"})
        \/ i = "url"     /\ Includes(OrEmpty(lead.needs_description), "http")
        \/ i = "email"   /\ MatchesAnyI(OrEmpty(lead.email),
                                {"@test", "@example", "@temp", "@fake"})}

\* C18: is_likely_spam is true if and only if at least two of the four spam
\* indicators hold of the lead; a lead with exactly one indicator is never
\* flagged.
C18_SpamIffTwoIndicators ==
    \A r \in Runs :
        Validated(r) =>
            LET n == Cardinality(IndicatorsOf(Val(run[r].formData)))
            IN  /\ Val(run[r].validatedData).is_likely_spam = (n >= 2)
                /\ n = 1 => ~Val(run[r].validatedData).is_likely_spam

\* A lead with exactly two indicators, one in the description and one in
\* the email, was validated and flagged.
C18_Witness ==
    \E r \in Runs :
        /\ Validated(r)
        /\ IndicatorsOf(Val(run[r].formData)) = {"keyword", "email"}
        /\ Val(run[r].validatedData).is_likely_spam

\* The call of extractDomain on the lead of run r has returned.
Extracted(r) == run[r].pc = "extracted"

\* The text after the '@' of an email address, lower-cased; "" when there is
\* no address, no '@' or nothing after it.
DomainOfEmail(lead) ==
    IF IsSome(lead.email) /\ Includes(Val(lead.email), "@")
    THEN ToLowerCase(SplitAt1(Val(lead.email)))
    ELSE ""

\* The decision of C19 for one lead and one result of extractDomain.
DomainDecision(lead, res) ==
    LET d == DomainOfEmail(lead)
    IN  /\ IF d # "" /\ d \notin personalDomains
           THEN res.extracted_domain = Some(d) /\ res.domain_source = "email"
           ELSE IF Truthy(lead.company_name)
           THEN res.domain_source = "guessed" /\ Truthy(res.extracted_domain)
           ELSE res.extracted_domain = None /\ res.domain_source = "none"
        /\ res.domain_source = "email"
           => IsSome(res.extracted_domain)
              /\ Val(res.extracted_domain) \notin personalDomains
        /\ (res.extracted_domain = None) = (res.domain_source = "none")

\* C19: if the email has a domain that, lower-cased, is not in the deny-list,
\* the result is that domain with source 'email', also when a company name
\* is present; otherwise, if a company name is present, a guessed domain with
\* source 'guessed'; otherwise null with source 'none'. A deny-listed domain
\* never comes with source 'email', and the domain is null exactly when the
\* source is 'none'.
C19_DomainDecision ==
    \A r \in Runs :
        Extracted(r) =>
            DomainDecision(Val(run[r].formData), Val(run[r].dataWithDomain))

\* The same decision for the leads whose email, if it has an '@', has text
\* after it.
C19_DecisionWithDomain ==
    \A r \in Runs :
        (Extracted(r) /\ Val(run[r].formData).email # Some("anna@"))
        => DomainDecision(Val(run[r].formData), Val(run[r].dataWithDomain))

\* What C20 asks of a model output, apart from the reasoning: a lead_score
\* within 1..100, a classification of the four, a role category and a list
\* of string key requirements.
WellFormedOutput(x) ==
    /\ Has(x, "lead_score") /\ IsNum(x.obj.lead_score)
    /\ x.obj.lead_score.num \in 1..100
    /\ Has(x, "classification") /\ IsStr(x.obj.classification)
    /\ x.obj.classification.str \in
          {"valid_lead", "invalid_lead", "likely_candidate", "likely_spam"}
    /\ Has(x, "role_category") /\ IsStr(x.obj.role_category)
    /\ Has(x, "key_requirements") /\ IsArr(x.obj.key_requirements)
    /\ \A i \in DOMAIN x.obj.key_requirements.arr :
          IsStr(x.obj.key_requirements.arr[i])

HasReasoning(x) == Has(x, "ai_reasoning") /\ IsStr(x.obj.ai_reasoning)

\* C20: the classifier accepts a model output only if it has lead_score
\* within 1..100, a classification of the four tags, a role category, a list
\* of string key requirements and a non-empty reasoning string; an output
\* failing one of these is rejected.
C20_StrictSchema ==
    \A r \in Runs :
        run[r].pc = "accepted" =>
            /\ WellFormedOutput(Val(run[r].jsonParsed))
            /\ HasReasoning(Val(run[r].jsonParsed))
            /\ Val(run[r].jsonParsed).obj.ai_reasoning.str # ""

\* The same with a reasoning string that may be empty: an output is accepted
\* exactly when it is well formed and has a reasoning string.
C20_SchemaAsWritten ==
    \A r \in Runs :
        /\ run[r].pc = "accepted" =>
              WellFormedOutput(Val(run[r].jsonParsed))
              /\ HasReasoning(Val(run[r].jsonParsed))
        /\ run[r].pc = "rejected" =>
              ~(WellFormedOutput(Val(run[r].jsonParsed))
                /\ HasReasoning(Val(run[r].jsonParsed)))

\* The completions whose output is empty, is not JSON once the fences are
\* stripped, or does not have the shape of a classification.
BadScoreCompletions ==
    {c \in ScoreCompletions :
        /\ c.kind = "ok"
        /\ \/ ~Truthy(c.content)
           \/ JSONparse(cleanContent(Val(c.content))) = None
           \/ LET x == Val(JSONparse(cleanContent(Val(c.content))))
              IN  ~(WellFormedOutput(x) /\ HasReasoning(x))}

\* The same for the job ad.
BadJobAdCompletions ==
    {c \in JobAdCompletions :
        /\ c.kind = "ok"
        /\ \/ ~Truthy(c.content)
           \/ JSONparse(cleanContent(Val(c.content))) = None
           \/ ~JobAdDataSchema(Val(JSONparse(cleanContent(Val(c.content)))))}

\* The errors scoreLead and generateJobAd throw for such outputs.
BadOutputErrors ==
    {scoreLeadResults[c].error : c \in BadScoreCompletions}
        \cup {generateJobAdResults[c].error : c \in BadJobAdCompletions}

\* The run of request r took the rejection of scoreLead or generateJobAd
\* for an unusable output into its catch block.
BadOutput(r) == IsSome(run[r].error) /\ Val(run[r].error) \in BadOutputErrors

\* C21: an output of the classification or of the job-ad generation that is
\* empty, unparsable or schema-invalid makes the stage throw and is never
\* turned into a default: the run has no classification (or no job ad) from
\* it, writes no candidate row, no job ad row and no rejected row with a
\* classifier tag for it, answers without a classification tag, and ends in
\* the catch block.
C21_NoDefaultClassification ==
    /\ \A c \in BadScoreCompletions : ~scoreLeadResults[c].ok
    /\ \A c \in BadJobAdCompletions : ~generateJobAdResults[c].ok
    /\ \A r \in Runs :
          BadOutput(r) =>
              /\ run[r].pc \in {"fallback", "alert", "done"}
              /\ run[r].jobAd = None
              /\ run[r].aiScore = None \/ run[r].jobAdP = "rejected"
              /\ RowsOf(candidate_leads, r) = {}
              /\ RowsOf(website_jobs, r) = {}
              /\ \A row \in RowsOf(rejected_leads, r) :
                    row.classification = "processing_error"
              /\ Done(r) =>
                    /\ run[r].response = Some(RecoveryAnswer)
                    /\ ResponseOf(r).body.classification = None

\* A classification with lead_score 0 was refused and the caller answered
\* from the catch block, the processing_error row written.
C21_Witness ==
    \E r \in Runs :
        /\ Done(r)
        /\ run[r].error = Some("AI scoring failed: Invalid AI response structure")
        /\ run[r].aiScore = None
        /\ \E row \in RowsOf(rejected_leads, r) :
              row.classification = "processing_error"

\* Request r was answered from the fast-reject branch or from a case of the
\* switch.
Terminal(r) == Done(r) /\ Entered(r) /\ ~Faulted(r)

TerminalTags == {"spam", "invalid_lead", "likely_spam", "likely_candidate", "valid_lead"}

\* C22: every terminal response (fast reject, invalid_lead, likely_spam,
\* likely_candidate, valid_lead) carries a success flag, a message, a
\* classification tag and the processing time; the valid_lead response also
\* carries the lead score of the classification and the title of the job ad,
\* and no other response carries a lead score or a title.
C22_ResponseShape ==
    \A r \in Runs :
        /\ Terminal(r) =>
              LET b == ResponseOf(r).body
              IN  /\ b.success = TRUE
                  /\ b.message # ""
                  /\ IsSome(b.classification)
                  /\ Val(b.classification) \in TerminalTags
                  /\ IsSome(b.processingTime)
                  /\ Val(b.classification) = "valid_lead" =>
                        /\ b.lead_score = Some(Val(run[r].aiScore).lead_score)
                        /\ b.job_ad_title = Some(Val(run[r].jobAd).title)
        /\ (Done(r) /\ ResponseOf(r).body.classification # Some("valid_lead")) =>
              /\ ResponseOf(r).body.lead_score = None
              /\ ResponseOf(r).body.job_ad_title = None

\* A valid_lead response with the score 85 and the title of the job ad.
C22_Witness ==
    \E r \in Runs :
        /\ Terminal(r)
        /\ ResponseOf(r).body.classification = Some("valid_lead")
        /\ ResponseOf(r).body.lead_score = Some(85)
        /\ ResponseOf(r).body.job_ad_title = Some("Junior utvecklare")
        /\ IsSome(ResponseOf(r).body.processingTime)

\* Request r carries the digest of its body under the configured secret.
Signed(r) ==
    /\ IsSome(webhookSecret)
    /\ run[r].signature = Some(Hmac(Val(webhookSecret), run[r].body))

\* A stage of the pipeline was started for request r.
Processed(r) == \E op \in Operations : calls[r][op] > 0

\* C23: with a webhook secret configured, a POST to /api/webhook reaches the
\* pipeline only if its x-webhook-signature is the HMAC-SHA256 of the body
\* under the secret; a request whose signature is missing or does not match
\* is answered 401 and starts no stage of the pipeline.
C23_AuthenticationGate ==
    \A r \in Runs :
        (IsSome(webhookSecret) /\ ~Signed(r)) =>
            /\ ~Processed(r)
            /\ Done(r) => ResponseOf(r).status = 401

\* The gate on its own: without a secret it calls next; with one it calls
\* next exactly for the digest of the raw body under the secret, answers 401
\* to a missing or other signature, and never does both.
C23_GateAlone ==
    \A r \in Runs :
        run[r].pc \in {"next", "done"} =>
            LET valid == /\ IsSome(run[r].rawBody)
                         /\ run[r].signature =
                               Some(Hmac(WebhookSecret, Val(run[r].rawBody)))
            IN  /\ (run[r].pc = "next") = (run[r].response = None)
                /\ webhookSecret = None => run[r].pc = "next"
                /\ webhookSecret # None => ((run[r].pc = "next") = valid)
                /\ (webhookSecret # None /\ ~valid
                    /\ (IsSome(run[r].rawBody) \/ run[r].signature = None))
                   => ResponseOf(r).status = 401

\* C24: whatever the order in which upsertContact and generateJobAd settle,
\* createJobAdRecord is called and the job ad row written only after both
\* were fulfilled; if either is rejected, no job ad row is written, no
\* confirmation is sent and the run ends in the catch block.
C24_ParallelJoin ==
    \A r \in Runs :
        /\ (calls[r].createJobAdRecord > 0 \/ run[r].pc \in {"jobrec", "email"}
             \/ RowsOf(website_jobs, r) # {})
           => /\ run[r].contactP = "fulfilled"
              /\ run[r].jobAdP = "fulfilled"
              /\ ContactsOf(contacts, r) # {}
              /\ IsSome(run[r].jobAd)
        /\ ("rejected" \in {run[r].contactP, run[r].jobAdP})
           => /\ calls[r].createJobAdRecord = 0
              /\ RowsOf(website_jobs, r) = {}
              /\ ConfirmationsOf(r) = {}
              /\ calls[r].sendEmailToLead = 0
              /\ run[r].pc \in {"fallback", "alert", "done"}
              /\ Faulted(r)
              /\ Done(r) => run[r].response = Some(RecoveryAnswer)

\* The job ad was generated, the contact upsert failed: the caller was
\* answered from the catch block and no job ad row was written.
C24_Witness ==
    \E r \in Runs :
        /\ Recovered(r)
        /\ run[r].contactP = "rejected"
        /\ run[r].jobAdP = "fulfilled"
        /\ RowsOf(website_jobs, r) = {}

\* The rows and mails that carry the id of request r.
EffectsOf(r) ==
    << RowsOf(signals, r), RowsOf(website_jobs, r), RowsOf(rejected_leads, r),
       RowsOf(candidate_leads, r), {e \in emails : e.id = r} >>

\* C25: once the response of a run is sent the run has stopped: no second
\* response, no further call, and no store write or mail of the run lands
\* after it; in particular its contact upsert does not write after it.
C25_OneResponseThenStop ==
    [][\A r \in Runs :
          Done(r) =>
              /\ run'[r].response = run[r].response
              /\ calls'[r] = calls[r]
              /\ EffectsOf(r)' = EffectsOf(r)
              /\ ~(run[r].contactP = "pending" /\ run'[r].contactP = "fulfilled")]_vars

\* The part of C25 that holds: one response per run, and no call is started
\* after it.
C25_SingleResponse ==
    [][\A r \in Runs :
          Done(r) =>
              /\ run'[r].response = run[r].response
              /\ calls'[r] = calls[r]
              /\ EffectsOf(r)' = EffectsOf(r)]_vars

\* Every call that was started returns or fails in the end.
SpecFair == Spec /\ \A r \in Runs : WF_vars(RunStep(r) /\ run[r].pc # "idle")

\* Under that assumption every request that arrived is answered.
C25_EventuallyAnswered == \A r \in Runs : (run[r].pc # "idle") ~> Done(r)

\* C26: no operation started by a run is still in flight when its response
\* is sent: upsertContact and generateJobAd have both settled.
C26_NothingInFlight ==
    \A r \in Runs :
        Done(r) => /\ run[r].contactP # "pending"
                   /\ run[r].jobAdP # "pending"

\* C27: the terminal sinks exclude each other within a run: a run that wrote
\* a job ad row or a candidate row for its submission writes no row to
\* rejected_leads for it.
C27_ExclusiveSinks ==
    \A r \in Runs :
        (RowsOf(website_jobs, r) # {} \/ RowsOf(candidate_leads, r) # {})
        => RowsOf(rejected_leads, r) = {}

\* The part of C27 that holds: a candidate row excludes a rejected row and a
\* job ad row, and a rejected row next to a job ad row is the
\* processing_error row of a failed confirmation mail.
C27_CandidateExclusive ==
    \A r \in Runs :
        /\ RowsOf(candidate_leads, r) # {}
           => RowsOf(rejected_leads, r) = {} /\ RowsOf(website_jobs, r) = {}
        /\ (RowsOf(website_jobs, r) # {} /\ RowsOf(rejected_leads, r) # {})
           => /\ run[r].error = Some("Failed to send email: mailer error")
              /\ \A row \in RowsOf(rejected_leads, r) :
                    row.classification = "processing_error"

\* The operations a run invokes at most once.
SingleOperations == Operations \ {"insertRejectedLead", "fallbackInsert"}

\* C28: within one run classification, company resolution, signal write,
\* contact upsert, job-ad generation, job-ad persistence, confirmation mail
\* and operator alert are each invoked at most once, whether they succeed or
\* fail; only the write to rejected_leads can be invoked twice, once by the
\* routing and once by the catch block.
C28_NoRetry ==
    \A r \in Runs :
        /\ \A op \in SingleOperations : calls[r][op] <= 1
        /\ calls[r].insertRejectedLead <= 1
        /\ calls[r].fallbackInsert <= 1
        /\ calls[r].fallbackInsert = 1 => Faulted(r)

\* The rejected-sink write was invoked twice: the write of the invalid_lead
\* branch failed and the catch block wrote the processing_error row; the
\* classification was not repeated.
C28_Witness ==
    \E r \in Runs :
        /\ Recovered(r)
        /\ calls[r].insertRejectedLead = 1
        /\ calls[r].fallbackInsert = 1
        /\ calls[r].scoreLead = 1
        /\ calls[r].sendAdminAlert = 1
        /\ RowsOf(rejected_leads, r) # {}

\* createSignal was called for request r and has returned without error.
SignalCreated(r) ==
    /\ calls[r].createSignal = 1
    /\ run[r].pc # "signal"
    /\ run[r].error # Some("Failed to create signal: store error")

RunsOfSubmission(r) ==
    {q \in Leads : Done(q) /\ ~Faulted(q) /\ run[q].body = run[r].body}

\* C30: after N successful valid_lead runs of one submission, made one
\* after the other, the store holds one company row and one contact row for
\* it, and N signals, N job ad rows and N confirmation mails: only company
\* and contact are deduplicated.
C30_IdempotentCompanyContact ==
    \A r \in Leads :
        (Done(r) /\ ~Faulted(r)) =>
            LET same == RunsOfSubmission(r)
                n    == Cardinality(same)
            IN  /\ \A q \in same : run[q].companyId = run[r].companyId
                /\ Cardinality({c \in companies : c.id = Val(run[r].companyId)}) = 1
                /\ Cardinality({c \in companies :
                        ToLowerCase(c.name) =
                            ToLowerCase(OrEmpty(Val(run[r].formData).company_name))}) = 1
                /\ Cardinality(ContactsOf(contacts, r)) = 1
                /\ Cardinality({s \in signals : s.id \in same}) = n
                /\ Cardinality({j \in website_jobs : j.id \in same}) = n
                /\ Cardinality({e \in emails :
                        e.kind = "confirmation" /\ e.id \in same}) = n
                /\ \A q \in same :
                      \E s \in signals : s.id = q /\ s.company_id = Val(run[r].companyId)

\* The same valid lead was processed twice: one company, one contact, two
\* signals, two job ad rows and two confirmation mails.
C30_Witness ==
    \E r \in Leads :
        /\ Cardinality(RunsOfSubmission(r)) = 2
        /\ Done(r)
        /\ Cardinality(companies) = 1
        /\ Cardinality(contacts) = 1
        /\ Cardinality(signals) = 2
        /\ Cardinality(website_jobs) = 2
        /\ Cardinality(emails) = 2

\* The contact email of request r: its address lower-cased and trimmed.
ContactEmail(r) == NormEmail[Val(Val(run[r].formData).email)]

\* The runs whose contact write used the address of request r.
UpsertedAs(r) ==
    {q \in Leads : Upserted(q) /\ ContactEmail(q) = ContactEmail(r)}

\* C31: in any interleaving of valid-lead runs, the signal, the contact and
\* the job ad row a run writes all carry the company id its one
\* findOrCreateCompany call returned, and that id names a company row.
C31_ReferentialConsistency ==
    \A r \in Leads :
        /\ calls[r].findOrCreateCompany <= 1
        /\ IsSome(run[r].companyId) =>
              /\ calls[r].findOrCreateCompany = 1
              /\ \E c \in companies : c.id = Val(run[r].companyId)
        /\ (RowsOf(signals, r) # {} \/ RowsOf(website_jobs, r) # {} \/ Upserted(r))
              => IsSome(run[r].companyId)
        /\ \A s \in RowsOf(signals, r) : s.company_id = Val(run[r].companyId)
        /\ \A j \in RowsOf(website_jobs, r) : j.company_id = Val(run[r].companyId)
        /\ Upserted(r) =>
              /\ \E c \in contacts : /\ c.company_id = Val(run[r].companyId)
                                      /\ c.email = ContactEmail(r)
              /\ \A c \in contacts :
                    c.email = ContactEmail(r) =>
                        \E q \in UpsertedAs(r) : c.company_id = Val(run[q].companyId)
        /\ Done(r) => /\ RowsOf(signals, r) # {}
                      /\ RowsOf(website_jobs, r) # {}
                      /\ Upserted(r)

\* Two runs for two companies have both finished, each with a signal, a
\* contact and a job ad row of its own company.
C31_Witness ==
    \E r1, r2 \in Leads :
        /\ Done(r1) /\ Done(r2)
        /\ run[r1].companyId # run[r2].companyId
        /\ \A r \in {r1, r2} :
              /\ \E s \in RowsOf(signals, r) : s.company_id = Val(run[r].companyId)
              /\ \E j \in RowsOf(website_jobs, r) : j.company_id = Val(run[r].companyId)
              /\ \E c \in contacts : /\ c.company_id = Val(run[r].companyId)
                                      /\ c.email = ContactEmail(r)
        /\ ContactEmail(r1) # ContactEmail(r2)

\* The switch of request r was handed a value that is none of the four tags.
UnknownTag(r) ==
    /\ IsSome(run[r].aiScore)
    /\ Val(run[r].aiScore).classification \notin Classifications

\* The operations of the four cases of the switch.
ClassifiedOperations ==
    {"findOrCreateCompany", "createSignal", "upsertContact", "generateJobAd",
     "createJobAdRecord", "sendEmailToLead", "insertCandidateLead",
     "insertRejectedLead"}

\* C32: a value that is none of the four tags makes the switch throw: no
\* operation of a classified path is called and no row of one is written,
\* the fallback write and the operator alert are attempted and the caller is
\* answered with the generic success; no value scoreLead returns is such a
\* value, so a run classified by scoreLead never takes that branch.
C32_UnknownTag ==
    /\ \A c \in ScoreCompletions :
          scoreLeadResults[c].ok =>
              /\ scoreLeadResults[c].data.classification \in Classifications
              /\ Route(scoreLeadResults[c].data.classification) # "throw"
    /\ \A r \in Runs :
          /\ (IsSome(run[r].aiScore) /\ Val(run[r].aiScore).ai_reasoning # "Stubbed")
                => /\ ~UnknownTag(r)
                   /\ run[r].error # Some("Unknown classification")
          /\ run[r].error = Some("Unknown classification") => UnknownTag(r)
          /\ UnknownTag(r) =>
                /\ run[r].error = Some("Unknown classification")
                /\ run[r].pc \in {"fallback", "alert", "done"}
                /\ \A op \in ClassifiedOperations : calls[r][op] = 0
                /\ RowsOf(signals, r) = {}
                /\ RowsOf(website_jobs, r) = {}
                /\ RowsOf(candidate_leads, r) = {}
                /\ ConfirmationsOf(r) = {}
                /\ run[r].companyId = None
                /\ run[r].contactP = "none"
                /\ \A row \in RowsOf(rejected_leads, r) :
                      /\ row.classification = "processing_error"
                      /\ row.ai_reasoning = "Processing error: Unknown classification"
                /\ calls[r].fallbackInsert = 1
                /\ run[r].pc \in {"alert", "done"} => calls[r].sendAdminAlert = 1
                /\ Done(r) => run[r].response = Some(RecoveryAnswer)

\* The switch was handed the tag maybe_lead: the processing_error row was
\* written, the alert sent and the caller answered from the catch block.
C32_Witness ==
    \E r \in Runs :
        /\ Done(r)
        /\ UnknownTag(r)
        /\ Val(run[r].aiScore).classification = "maybe_lead"
        /\ run[r].error = Some("Unknown classification")
        /\ \E row \in RowsOf(rejected_leads, r) : row.classification = "processing_error"
        /\ AlertsOf(r) # {}
        /\ ~scoreLeadResults[Completion(Some(ScoreText("50", "maybe_lead")))].ok

\* generateJobAd of request r validated an output.
JobAdChecked(r) == IsSome(run[r].jsonParsed) /\ IsSome(run[r].validated)

\* The job ad the specification asks for: five non-empty strings, a
\* well-formed URL and a date.
JobAdAsSpecified(x) ==
    /\ IsObj(x)
    /\ \A f \in {"title", "company", "description", "location", "category"} :
          /\ f \in DOMAIN x.obj
          /\ IsStr(x.obj[f])
          /\ x.obj[f].str # ""
    /\ "external_url" \in DOMAIN x.obj
    /\ IsStr(x.obj.external_url)
    /\ x.obj.external_url.str \in ValidUrls
    /\ "posted_date" \in DOMAIN x.obj

\* C33: generateJobAd returns a job ad only for an output with non-empty
\* title, company, description, location and category, a well-formed URL and
\* a date; when it rejects the output, the valid-lead run writes no job ad
\* row and sends no confirmation, and the company, the signal and the
\* contact it wrote stay in the store.
C33_JobAdRejection ==
    \A r \in Runs :
        JobAdChecked(r) =>
            LET x        == Val(run[r].jsonParsed)
                accepted == Val(run[r].validated).success
            IN  /\ accepted => JobAdAsSpecified(x)
                /\ accepted => run[r].jobAd = Some([title |-> x.obj.title.str,
                                                      external_url |-> x.obj.external_url.str])
                /\ ~accepted =>
                      /\ run[r].jobAd = None
                      /\ run[r].pc \in {"fallback", "alert", "done"}
                      /\ IsSome(run[r].error)
                      /\ calls[r].createJobAdRecord = 0
                      /\ calls[r].sendEmailToLead = 0
                      /\ RowsOf(website_jobs, r) = {}
                      /\ ConfirmationsOf(r) = {}
                      /\ \E c \in companies : c.id = Val(run[r].companyId)
                      /\ RowsOf(signals, r) = {SignalRow(r, run[r])}
                      /\ Upserted(r) => contactData(run[r]) \in contacts
                      /\ Done(r) => run[r].response = Some(RecoveryAnswer)

\* A job ad without a well-formed URL was rejected after the contact had
\* been written: the run ended in the catch block with company, signal and
\* contact in the store and no job ad row; and a complete job ad is accepted.
C33_Witness ==
    \E r \in Runs :
        /\ Done(r)
        /\ JobAdChecked(r)
        /\ ~Val(run[r].validated).success
        /\ Val(run[r].jsonParsed) =
              [obj |-> [ValidJobAd EXCEPT !.external_url = [str |-> "not-a-url"]]]
        /\ run[r].error =
              Some("Job ad generation failed: Invalid job ad response structure")
        /\ contactData(run[r]) \in contacts
        /\ RowsOf(signals, r) # {}
        /\ companies # {}
        /\ website_jobs = {}
        /\ JobAdDataSchema([obj |-> ValidJobAd])

\* The JSON object a content wraps in a code fence, None for a content that
\* is not one fenced object.
Wrapped(content) ==
    LET hit == {t \in JsonTexts : content \in {Tagged(t), Untagged(t)}}
    IN  IF hit = {} THEN None ELSE Some(CHOOSE t \in hit : TRUE)

\* C34: a content that is one JSON object in a code fence, with the json tag
\* or without a tag, parses to the value of the bare object; a bare object
\* is left as it is by the stripping step.
C34_FenceStripping ==
    \A r \in Runs :
        IsSome(run[r].content) =>
            LET content == Val(run[r].content)
            IN  /\ (run[r].pc \in {"parsed", "rejected"} /\ IsSome(Wrapped(content)))
                      => /\ run[r].pc = "parsed"
                         /\ run[r].jsonParsed = JSONparse(Val(Wrapped(content)))
                /\ (run[r].pc # "content" /\ content \in JsonTexts)
                      => run[r].cleanContent = Some(content)

\* The same for the fences the stripping step knows: an opening fence with
\* the json tag in any letter case.
C34_TaggedFence ==
    \A r \in Runs :
        IsSome(run[r].content) =>
            LET content == Val(run[r].content)
            IN  /\ \A t \in JsonTexts :
                      (run[r].pc \in {"parsed", "rejected"}
                         /\ content \in {Tagged(t), TaggedUpper(t), TaggedInline(t)})
                      => /\ run[r].pc = "parsed"
                         /\ run[r].cleanContent = Some(t)
                         /\ run[r].jsonParsed = JSONparse(t)
                /\ (run[r].pc # "content" /\ content \in JsonTexts)
                      => run[r].cleanContent = Some(content)
                /\ \A t \in JsonTexts :
                      (run[r].pc \in {"parsed", "rejected"} /\ content = Untagged(t))
                      => run[r].pc = "rejected"

\* The domain guessed for a company name: the name without blanks, in lower
\* case, followed by ".se".
GuessOf(b) == RemoveSpaces(ToLowerCase(b.name)) \o ".se"

\* C35: for an email at a consumer mail provider and a company name, the
\* guessed domain is the name without its legal suffix and without blanks, in
\* lower case, followed by ".se"; every spelling of the name that differs in
\* letter case, blanks or the legal suffix only gives that same domain.
C35_GuessedDomain ==
    \A r \in Runs :
        Extracted(r) =>
            LET res == Val(run[r].dataWithDomain)
                c   == Val(Val(run[r].formData).company_name)
            IN  /\ res.domain_source = "guessed"
                /\ \A b \in BaseNames :
                      c \in SuffixLast(b) \cup BlankLast(b)
                          => res.extracted_domain = Some(GuessOf(b))
                /\ c = "Nordea AB" => res.extracted_domain = Some("nordea.se")
                /\ c = "Tech Company AB" => res.extracted_domain = Some("techcompany.se")
                /\ c = "Volvo Aktiebolag" => res.extracted_domain = Some("volvo.se")

\* The same for the spellings that end with the name or the suffix; a blank
\* after the suffix keeps the suffix in the domain.
C35_SuffixLast ==
    \A r \in Runs :
        Extracted(r) =>
            LET res == Val(run[r].dataWithDomain)
                c   == Val(Val(run[r].formData).company_name)
            IN  /\ res.domain_source = "guessed"
                /\ \A b \in BaseNames :
                      /\ c \in SuffixLast(b) => res.extracted_domain = Some(GuessOf(b))
                      /\ c \in BlankLast(b) =>
                            /\ res.extracted_domain # Some(GuessOf(b))
                            /\ res.extracted_domain \in
                                  {Some(RemoveSpaces(ToLowerCase(b.name)) \o "ab.se"),
                                   Some(RemoveSpaces(ToLowerCase(b.name)) \o "aktiebolag.se")}
                /\ c = "Nordea AB" => res.extracted_domain = Some("nordea.se")
                /\ c = "Tech Company AB" => res.extracted_domain = Some("techcompany.se")
                /\ c = "Volvo Aktiebolag" => res.extracted_domain = Some("volvo.se")

\* C36: company name and contact name pass exactly when longer than 2
\* characters, the need description exactly from 50 characters on, the phone
\* exactly with a run of 8 digits, blanks or - + ( ), the email exactly when
\* it reads local@domain.tld without whitespace; a lead failing all five
\* checks scores below 50.
C36_Boundaries ==
    \A r \in Runs :
        Validated(r) =>
            LET lead == Val(run[r].formData)
                res  == Val(run[r].validatedData)
                v    == res.validation_details
            IN  /\ v.company_filled = (Len(Val(lead.company_name)) >= 3)
                /\ v.contact_name_filled = (Len(Val(lead.full_name)) >= 3)
                /\ v.needs_adequate = (Len(Val(lead.needs_description)) > 49)
                /\ v.phone_valid = (Val(lead.phone) \in GoodPhones)
                /\ v.email_valid = (Val(lead.email) \in GoodEmails)
                /\ (~v.company_filled /\ ~v.contact_name_filled /\ ~v.needs_adequate
                      /\ ~v.phone_valid /\ ~v.email_valid)
                      => res.validation_score < 50

\* The incomplete lead of the tests fails every check and scores 0; the same
\* lead with a name of 3 characters and a description of 50 passes those two.
C36_Witness ==
    \E r \in Runs :
        /\ Validated(r)
        /\ LET lead == Val(run[r].formData)
               res  == Val(run[r].validatedData)
           IN  /\ lead.full_name = Some("Bo")
               /\ lead.company_name = Some("AB")
               /\ lead.needs_description = Some(Message49)
               /\ lead.phone = Some("1234567")
               /\ lead.email = Some("a@b")
               /\ res.validation_score = 0
        /\ Len(Message49) = 49 /\ Len(Message50) = 50
        /\ validation([full_name |-> Some("Bob"), email |-> Some("a@b.se"),
                       phone |-> Some("12345678"), company_name |-> Some("ABB"),
                       needs_description |-> Some(Message50)]) =
              [email_valid |-> TRUE, phone_valid |-> TRUE, company_filled |-> TRUE,
               needs_description_length |-> 50, needs_adequate |-> TRUE,
               contact_name_filled |-> TRUE]

\* The gate of request r has decided.
Gated(r) == run[r].pc \in {"fastreject", "score"}

\* round(k / 6 * 100) for k = 0 .. 5 passed checks.
ScoreSteps == [k \in 0..5 |-> <<0, 17, 33, 50, 67, 83>>[k + 1]]

C37_Proceeds ==
    \E r \in Runs :
        /\ run[r].pc = "score"
        /\ Cardinality(FitnessChecks(Val(run[r].formData))) = 2
        /\ Cardinality(IndicatorsOf(Val(run[r].formData))) = 1
        /\ Val(run[r].validatedData).validation_score = 33

\* C38: after one or more signals the process exits only with code 0 once
\* the server has closed with no request in flight, or with code 1 once the
\* shutdown timeout has fired; while a request is in flight and no timeout
\* has fired the process lives, however many signals it received; and a
\* closing server takes no new request.
C38_GracefulShutdown ==
    /\ [](/\ process.exitCode \in {None, Some(0), Some(1)}
          /\ process.exitCode # None => process.signals >= 1
          /\ process.exitCode = Some(0) =>
                /\ process.server = "closed"
                /\ ~process.timedOut
                /\ \A r \in Runs : ~InFlight(r)
          /\ process.exitCode = Some(1) => process.timedOut
          /\ ((\E r \in Runs : InFlight(r)) /\ ~process.timedOut)
                => process.exitCode = None
          /\ process.timeouts = process.signals)
    /\ [][/\ process.exitCode # None => UNCHANGED vars
          /\ process.server # "listening" =>
                \A r \in Runs : run[r].pc = "idle" => run'[r].pc = "idle"]_vars

\* Two signals arrived while a request was in flight; the request was
\* answered, the server closed and the process exited with code 0.
C38_Witness ==
    /\ process.exitCode = Some(0)
    /\ process.signals = 2
    /\ process.closeCallbacks = << "closed", "not running" >>
    /\ \E r \in Runs : /\ Done(r)
                         /\ ConfirmationsOf(r) # {}

\* The timeout fired while a request was in flight: exit code 1.
C38_ForcedExit ==
    /\ process.exitCode = Some(1)
    /\ \E r \in Runs : InFlight(r)

====
